---- MODULE Spec2Model ----
(***************************************************************************)
(* MOEX-Analyzer_V2: the analytics-and-narrative pipeline.                 *)
(*   analiz.py           TickerAnalyzer (normalizer, order flow, VWAP,      *)
(*                       volume profile, large trades, full analysis)      *)
(*   algo_detector.py    AlgoDetector.detect_algo_signals                  *)
(*   report_generator.py ReportGenerator (narrative assembly)              *)
(*   rank_candidates.py  ReportAnalyzer (phrase-rule scorer)               *)
(*                                                                         *)
(* Timestamps are whole seconds counted from midnight of the session day,  *)
(* prices, quantities and values are integers; every comparison the code   *)
(* makes on a ratio is made here on the cross-multiplied integers.         *)
(***************************************************************************)
EXTENDS Integers, Sequences, FiniteSets, TLC

VARIABLES
    pc,            \* position of the per-instrument pipeline / of the object under test
    raw,           \* the raw trades DataFrame handed to TickerAnalyzer
    df,            \* TickerAnalyzer.df, the cleaned trade sequence
    result,        \* what the last analyzer/generator method call returned
    report,        \* the AnalysisReport dict of run_full_analysis
    large_trades,  \* ReportGenerator.large_trades / AlgoDetector.large_trades
    text,          \* ReportAnalyzer.text, a sequence of phrase tokens
    scorer,        \* ReportAnalyzer's long_score, short_score, long_reasons, short_reasons
    calls,         \* how many times analyze() ran on the ReportAnalyzer
    fs,            \* the folder a batch run reads, and the files it writes
    batch,         \* the state and the output of a batch run
    scan,          \* the loop variables of the detector's time-cluster scan
    gui,           \* MainWindow's data-collection tab, its workers and their queued signals
    main           \* the position of run_analysis.main and the stages it has run

vars == <<pc, raw, df, result, report, large_trades, text, scorer, calls, fs, batch, scan, gui, main>>

----------------------------------------------------------------------------
(* Bounds of the model *)

MaxRaw == 3        \* rows of a raw trades DataFrame
MaxBins == 3       \* bins asked of get_volume_profile, besides the default
MaxText == 3       \* phrases of a report text handed to the scorer
MaxCalls == 2      \* analyze() calls on one ReportAnalyzer
MaxBlocks == 4     \* runs of equal quantity in a large-trade list
MaxGaps == 12      \* gaps between consecutive trades of a large-trade list
MaxWeak == 3       \* large trades searched for weakness levels
MaxReports == 6    \* files in the reports folder that is ranked
MaxLarge == 6      \* large trades of a report that is narrated
MaxBatch == 2      \* instruments of a batch run
MaxScan == 6       \* gaps between the large trades of a time-cluster scan
MaxFlow == 3       \* buckets of the order flow of a report that is narrated
MaxTail == 11      \* large trades of a report searched for a culmination
MaxStretch == 2    \* stretches of large trades at one price in a report searched for a false breakout
MaxWorkers == 2    \* data-collection workers started in one session of the GUI

----------------------------------------------------------------------------
(* Generic helpers *)

Range(s) == {s[i] : i \in 1..Len(s)}

Abs(x) == IF x < 0 THEN -x ELSE x

RECURSIVE SumRange(_, _, _)
\* s[lo] + ... + s[hi]
SumRange(s, lo, hi) ==
    IF lo > hi THEN 0
    ELSE IF lo = hi THEN s[lo]
    ELSE LET mid == (lo + hi) \div 2
         IN  SumRange(s, lo, mid) + SumRange(s, mid + 1, hi)

SumSeq(s) == SumRange(s, 1, Len(s))

RECURSIVE FilterSeq(_, _)
\* the rows of s at the positions in keep, in order (boolean-mask selection)
FilterSeq(s, keep) ==
    IF s = <<>> THEN <<>>
    ELSE LET n == Len(s)
             front == FilterSeq(SubSeq(s, 1, n - 1), keep)
         IN  IF n \in keep THEN Append(front, s[n]) ELSE front

Perms(n) ==
    {p \in [1..n -> 1..n] : \A i, j \in 1..n : i # j => p[i] # p[j]}

SeqsUpTo(S, n) == UNION {[1..k -> S] : k \in 0..n}

None == [k |-> "none"]

\* the function f with every value computed once, not at each use
Eager(f) == f @@ <<>>

----------------------------------------------------------------------------
(* Cells of a DataFrame column.  A raw cell is a number ("num") or some    *)
(* text that is no number or timestamp ("str"); a coerced cell is a number *)
(* or NaN / NaT ("nan").                                                   *)

Num(n) == [k |-> "num", v |-> n]
Str == [k |-> "str", v |-> 0]
NaN == [k |-> "nan", v |-> 0]

IsNa(c) == c.k = "nan"

\* pd.to_numeric(col, errors='coerce') on one cell
ToNumeric(c) == IF c.k = "num" THEN c ELSE NaN

\* pd.to_datetime(TRADEDATE + ' ' + TRADETIME, errors='coerce') on one cell
ToDatetime(c) == IF c.k = "num" THEN c ELSE NaN

\* elementwise product of two columns: NaN propagates
Mul(a, b) == IF IsNa(a) \/ IsNa(b) THEN NaN ELSE Num(a.v * b.v)

RawRows(T, P, Q, V, S) ==
    [TRADETIME : T, PRICE : P, QUANTITY : Q, VALUE : V, BUYSELL : S]

----------------------------------------------------------------------------
(* TickerAnalyzer._preprocess_data *)

\* lines 26-44 on one row; no is the row's position in the raw frame
CoerceRow(r, no, has_value) ==
    LET price == ToNumeric(r.PRICE)
        qty   == ToNumeric(r.QUANTITY)
    IN  [no            |-> no,
         TRADETIME     |-> ToDatetime(r.TRADETIME),
         PRICE         |-> price,
         QUANTITY      |-> qty,
         VALUE         |-> IF has_value THEN ToNumeric(r.VALUE) ELSE Mul(price, qty),
         BUYSELL       |-> r.BUYSELL,
         signed_volume |-> Mul(qty, Num(IF r.BUYSELL = "B" THEN 1 ELSE -1))]

\* line 27: df.dropna(subset=['TRADETIME'])
DropNaT(rows) == FilterSeq(rows, {i \in 1..Len(rows) : ~IsNa(rows[i].TRADETIME)})

\* line 46: sort_values('TRADETIME') with the default kind (quicksort), which
\* promises ascending order and nothing about rows of equal TRADETIME.
SortValues(rows) ==
    {[i \in 1..Len(rows) |-> rows[p[i]]] : p \in
        {q \in Perms(Len(rows)) :
            \A i, j \in 1..Len(rows) :
                i < j => rows[q[i]].TRADETIME.v <= rows[q[j]].TRADETIME.v}}

\* line 47: dropna(subset=['PRICE', 'QUANTITY', 'VALUE'])
DropNa(rows) ==
    FilterSeq(rows, {i \in 1..Len(rows) :
        ~IsNa(rows[i].PRICE) /\ ~IsNa(rows[i].QUANTITY) /\ ~IsNa(rows[i].VALUE)})

\* the frames _preprocess_data can return for a raw frame
PreprocessData(r) ==
    LET coerced == [i \in 1..Len(r.rows) |-> CoerceRow(r.rows[i], i, r.has_value)]
    IN  {DropNa(s) : s \in SortValues(DropNaT(coerced))}

----------------------------------------------------------------------------
(* TickerAnalyzer.__init__ *)

\* TickerAnalyzer.__init__ if it looked for emptiness after the cleaning
ConstructChecksCleaned ==
    /\ pc = "new"
    /\ \E d \in PreprocessData(raw) :
          IF d = <<>>
          THEN pc' = "raised" /\ df' = df
          ELSE pc' = "ready" /\ df' = d
    /\ UNCHANGED <<raw, result, report, large_trades, text, scorer, calls, fs, batch, scan, gui, main>>

Construct ==
    /\ pc = "new"
    /\ IF Len(raw.rows) = 0
       THEN /\ pc' = "raised"              \* ValueError, line 18
            /\ df' = df
       ELSE /\ df' \in PreprocessData(raw)
            /\ pc' = "ready"
    /\ UNCHANGED <<raw, result, report, large_trades, text, scorer, calls, fs, batch, scan, gui, main>>

----------------------------------------------------------------------------
(* TickerAnalyzer.get_order_flow_metrics *)

\* Series.cumsum(): the running sum
CumSum(s) == [i \in 1..Len(s) |-> SumRange(s, 1, i)]

\* the left-closed bucket of width W seconds a timestamp falls in
Bucket(t, W) == t \div W

SetMin(S) == CHOOSE x \in S : \A y \in S : x <= y
SetMax(S) == CHOOSE x \in S : \A y \in S : y <= x

\* sum of column col over the rows at the positions in keep
ColSum(d, col, keep) ==
    SumSeq([i \in 1..Len(d) |-> IF i \in keep THEN d[i][col].v ELSE 0])

\* set_index('TRADETIME')['signed_volume'].resample(period).sum(): one bucket
\* for every period from the first trade's to the last trade's, empty ones too
ResampleSumDropsLast(d, W) ==
    LET bs    == {Bucket(d[i].TRADETIME.v, W) : i \in 1..Len(d)}
        first == SetMin(bs)
    IN  [i \in 1..(SetMax(bs) - first) |->
            [TRADETIME |-> (first + i - 1) * W,
             delta     |-> ColSum(d, "signed_volume",
                              {k \in 1..Len(d) : Bucket(d[k].TRADETIME.v, W) = first + i - 1})]]

ResampleSum(d, W) ==
    LET bs    == {Bucket(d[i].TRADETIME.v, W) : i \in 1..Len(d)}
        first == SetMin(bs)
    IN  [i \in 1..(SetMax(bs) - first + 1) |->
            [TRADETIME |-> (first + i - 1) * W,
             delta     |-> ColSum(d, "signed_volume",
                              {k \in 1..Len(d) : Bucket(d[k].TRADETIME.v, W) = first + i - 1})]]

GetOrderFlowMetrics(d, W) ==
    IF d = <<>> THEN <<>>
    ELSE LET delta_df == ResampleSum(d, W)
             cum      == CumSum([i \in 1..Len(delta_df) |-> delta_df[i].delta])
         IN  [i \in 1..Len(delta_df) |->
                [TRADETIME        |-> delta_df[i].TRADETIME,
                 delta            |-> delta_df[i].delta,
                 cumulative_delta |-> cum[i]]]

----------------------------------------------------------------------------
(* TickerAnalyzer.get_vwap *)

\* get_vwap with a plain division
GetVwapUnguarded(d) ==
    LET cq  == CumSum([i \in 1..Len(d) |-> d[i].QUANTITY.v])
        cpq == CumSum([i \in 1..Len(d) |-> d[i].PRICE.v * d[i].QUANTITY.v])
    IN  [i \in 1..Len(d) |->
            [TRADETIME |-> d[i].TRADETIME.v,
             PRICE     |-> d[i].PRICE.v,
             vwap      |-> [num |-> cpq[i], den |-> cq[i]]]]

\* a VWAP value is the exact ratio num/den; the guarded division of line 70
\* puts 0 where the cumulative quantity is 0
GetVwap(d) ==
    LET cq  == CumSum([i \in 1..Len(d) |-> d[i].QUANTITY.v])
        cpq == CumSum([i \in 1..Len(d) |-> d[i].PRICE.v * d[i].QUANTITY.v])
    IN  [i \in 1..Len(d) |->
            [TRADETIME |-> d[i].TRADETIME.v,
             PRICE     |-> d[i].PRICE.v,
             vwap      |-> IF cq[i] # 0 THEN [num |-> cpq[i], den |-> cq[i]]
                                        ELSE [num |-> 0, den |-> 1]]]

----------------------------------------------------------------------------
(* TickerAnalyzer.get_volume_profile *)

DefaultBins == 50

\* pd.cut(PRICE, bins=N): the N+1 bin edges, every edge multiplied by 1000*N.
\* N equal steps from the lowest to the highest price, then the lowest edge is
\* moved down by 0.1% of the price range so that the lowest price falls in a
\* right-closed bin; when all prices are equal, N equal steps from 0.1% below
\* to 0.1% above that price.
CutEdges(mn, mx, N) ==
    IF mn = mx
    THEN LET a == IF mn # 0 THEN Abs(mn) ELSE 1
         IN  [k \in 0..N |-> 1000 * N * mn - N * a + 2 * k * a]
    ELSE [k \in 0..N |->
            IF k = 0 THEN 1000 * N * mn - N * (mx - mn)
                     ELSE 1000 * N * mn + 1000 * k * (mx - mn)]

\* whether price p falls in the k-th bin, the right-closed (edges[k-1], edges[k]]
InBinLeftClosed(p, k, edges, N) ==
    edges[k - 1] <= 1000 * N * p /\ 1000 * N * p < edges[k]

InBin(p, k, edges, N) ==
    edges[k - 1] < 1000 * N * p /\ 1000 * N * p <= edges[k]

RECURSIVE IdxMax(_, _, _)
\* Series.idxmax() over positions lo..hi: the first position of the maximum
IdxMax(f, lo, hi) ==
    IF lo = hi THEN lo
    ELSE LET mid == (lo + hi) \div 2
             a   == IdxMax(f, lo, mid)
             b   == IdxMax(f, mid + 1, hi)
         IN  IF f[b].QUANTITY > f[a].QUANTITY THEN b ELSE a

\* groupby(price_bins)['QUANTITY'].sum().sort_index(): every bin of the cut,
\* in ascending order, with the quantity of the rows whose price falls in it
\* (pandas before 3.0 keeps the bins no row falls in, with quantity 0)
GetVolumeProfile(d, N) ==
    IF d = <<>> THEN [volume_profile |-> <<>>, poc_level |-> None, poc_volume |-> 0]
    ELSE LET prices == {d[i].PRICE.v : i \in 1..Len(d)}
             edges  == Eager(CutEdges(SetMin(prices), SetMax(prices), N))
             qty    == Eager([k \in 1..N |-> ColSum(d, "QUANTITY",
                                {i \in 1..Len(d) : InBin(d[i].PRICE.v, k, edges, N)})])
             vp     == Eager([k \in 1..N |->
                                [left |-> edges[k - 1], right |-> edges[k], QUANTITY |-> qty[k]]])
             poc    == IdxMax(vp, 1, N)
         IN  [volume_profile |-> vp,
              poc_level      |-> [k |-> "some", left |-> vp[poc].left, right |-> vp[poc].right],
              poc_volume     |-> vp[poc].QUANTITY]

----------------------------------------------------------------------------
(* TickerAnalyzer.get_large_trades *)

DefaultQuantile == 95

RECURSIVE SortAsc(_)
SortAsc(s) ==
    IF s = <<>> THEN <<>>
    ELSE LET m == SetMin(Range(s))
             i == SetMin({j \in 1..Len(s) : s[j] = m})
         IN  <<m>> \o SortAsc(SubSeq(s, 1, i - 1) \o SubSeq(s, i + 1, Len(s)))

\* Series.quantile(q/100) with linear interpolation, multiplied by 100
Quantile100(values, q) ==
    LET v  == SortAsc(values)
        h  == (Len(v) - 1) * q
        lo == h \div 100
        r  == h % 100
    IN  IF r = 0 THEN 100 * v[lo + 1]
        ELSE 100 * v[lo + 1] + r * (v[lo + 2] - v[lo + 1])

Values(d) == [i \in 1..Len(d) |-> d[i].VALUE.v]

\* line 109, the boolean mask of the large trades
LargeMaskStrict(d, q) == {i \in 1..Len(d) : 100 * d[i].VALUE.v > Quantile100(Values(d), q)}

LargeMask(d, q) == {i \in 1..Len(d) : 100 * d[i].VALUE.v >= Quantile100(Values(d), q)}

GetLargeTrades(d, q) ==
    IF d = <<>> THEN <<>>
    ELSE LET large == FilterSeq(d, LargeMask(d, q))
         IN  [i \in 1..Len(large) |->
                [no        |-> large[i].no,
                 TRADETIME |-> large[i].TRADETIME.v,
                 PRICE     |-> large[i].PRICE.v,
                 QUANTITY  |-> large[i].QUANTITY.v,
                 VALUE     |-> large[i].VALUE.v,
                 BUYSELL   |-> large[i].BUYSELL]]

----------------------------------------------------------------------------
(* TickerAnalyzer.run_full_analysis *)

RECURSIVE SetToSeq(_)
\* the elements of a set of integers in ascending order
SetToSeq(S) == IF S = {} THEN <<>> ELSE <<SetMin(S)>> \o SetToSeq(S \ {SetMin(S)})

Hour(t) == t \div 3600

\* lines 121-137: one entry per hour that has trades, in ascending hour order
HourlyStats(d) ==
    LET hours == SetToSeq({Hour(d[i].TRADETIME.v) : i \in 1..Len(d)})
        rows(h) == {i \in 1..Len(d) : Hour(d[i].TRADETIME.v) = h}
        stat(h) ==
            LET group    == FilterSeq(d, rows(h))
                buy_vol  == ColSum(d, "QUANTITY", {i \in rows(h) : d[i].BUYSELL = "B"})
                sell_vol == ColSum(d, "QUANTITY", {i \in rows(h) : d[i].BUYSELL = "S"})
                delta    == buy_vol - sell_vol
            IN  [hour       |-> h,
                 direction  |-> IF delta > 0 THEN "Pokupateli"
                                ELSE IF delta < 0 THEN "Prodavtsy" ELSE "Balans",
                 delta      |-> delta,
                 big_trades |-> Cardinality({i \in 1..Len(group) :
                                    100 * group[i].VALUE.v
                                        > Quantile100(Values(group), DefaultQuantile)}),
                 buy_vol    |-> buy_vol,
                 sell_vol   |-> sell_vol]
    IN  [i \in 1..Len(hours) |-> stat(hours[i])]

DefaultPeriod == 60

RunFullAnalysisOf(d) ==
    LET order_flow_df       == GetOrderFlowMetrics(d, DefaultPeriod)
        volume_profile_data == GetVolumeProfile(d, DefaultBins)
        large_trades_df     == GetLargeTrades(d, DefaultQuantile)
        vwap_df             == GetVwap(d)
        all                 == 1..Len(d)
    IN  [ticker        |-> IF d # <<>> THEN "SECID" ELSE "Unknown",
         data_period   |-> IF d # <<>>
                           THEN [start |-> Num(SetMin({d[i].TRADETIME.v : i \in all})),
                                 end   |-> Num(SetMax({d[i].TRADETIME.v : i \in all}))]
                           ELSE [start |-> NaN, end |-> NaN],
         summary_stats |->
            [total_trades |-> Len(d),
             total_volume |-> ColSum(d, "QUANTITY", all),
             buy_volume   |-> ColSum(d, "QUANTITY", {i \in all : d[i].BUYSELL = "B"}),
             sell_volume  |-> ColSum(d, "QUANTITY", {i \in all : d[i].BUYSELL = "S"}),
             delta        |-> ColSum(d, "signed_volume", all),
             poc          |-> volume_profile_data.poc_level,
             final_vwap   |-> IF vwap_df # <<>>
                              THEN [k   |-> "some",
                                    num |-> vwap_df[Len(vwap_df)].vwap.num,
                                    den |-> vwap_df[Len(vwap_df)].vwap.den]
                              ELSE None],
         order_flow_data |-> order_flow_df,
         volume_profile  |-> volume_profile_data.volume_profile,
         large_trades    |-> large_trades_df,
         hourly_stats    |-> HourlyStats(d)]

RunFullAnalysis ==
    /\ pc = "ready"
    /\ report' = RunFullAnalysisOf(df)
    /\ pc' = "analysed"
    /\ UNCHANGED <<raw, df, result, large_trades, text, scorer, calls, fs, batch, scan, gui, main>>

----------------------------------------------------------------------------
(* The analyzer's methods called on their own, with their parameter *)

Periods == {30, DefaultPeriod}

CallOrderFlowMetrics ==
    /\ pc = "ready"
    /\ result.op = "none"
    /\ \E W \in Periods :
          result' = [op |-> "get_order_flow_metrics", arg |-> W,
                     value |-> GetOrderFlowMetrics(df, W)]
    /\ UNCHANGED <<pc, raw, df, report, large_trades, text, scorer, calls, fs, batch, scan, gui, main>>

----------------------------------------------------------------------------
(* Order flow: raw frames whose rows differ in time, quantity and side *)

FlowTimes == {0, 29, 70}

\* buys of 2 lots and sells of 1 lot at any of the times
FlowRows ==
    {r \in RawRows({Num(t) : t \in FlowTimes}, {Num(10)}, {Num(1), Num(2)}, {Str}, {"B", "S"}) :
        (r.BUYSELL = "B") <=> (r.QUANTITY.v = 2)}

NoResult == [op |-> "none", arg |-> 0, value |-> <<>>]
NoScorer == [long_score |-> 0, short_score |-> 0,
             long_reasons |-> <<>>, short_reasons |-> <<>>]

IdleRest ==
    /\ result = NoResult
    /\ report = None
    /\ large_trades = <<>>
    /\ text = [case |-> "lower", words |-> <<>>]
    /\ scorer = NoScorer
    /\ calls = 0
    /\ fs = <<>>
    /\ batch = None
    /\ scan = None
    /\ gui = None
    /\ main = None

InitFlow ==
    /\ pc = "new"
    /\ raw \in [has_value : {FALSE}, rows : SeqsUpTo(FlowRows, MaxRaw)]
    /\ df = <<>>
    /\ IdleRest

NextFlow == Construct \/ CallOrderFlowMetrics \/ RunFullAnalysis

SpecFlow == InitFlow /\ [][NextFlow]_vars

\* C1: for a non-empty cleaned trade sequence and any bucket width, the last
\* bucket's cumulative_delta is the sum of signed_volume over all trades, every
\* bucket's cumulative_delta is the sum of the bucket deltas up to it, which is
\* the signed volume of the trades before the bucket's end; and in the report
\* of run_full_analysis the last cumulative_delta is summary_stats.delta.
SignedVolumeBefore(d, t) ==
    SumSeq([i \in 1..Len(d) |-> IF d[i].TRADETIME.v < t THEN d[i].signed_volume.v ELSE 0])

FlowIsPrefixSum(d, flow, W) ==
    /\ flow # <<>>
    /\ flow[Len(flow)].cumulative_delta = SumSeq([i \in 1..Len(d) |-> d[i].signed_volume.v])
    /\ \A i \in 1..Len(flow) :
          /\ flow[i].cumulative_delta
                = SumSeq([j \in 1..i |-> flow[j].delta])
          /\ flow[i].cumulative_delta = SignedVolumeBefore(d, flow[i].TRADETIME + W)
          /\ i > 1 => flow[i].TRADETIME = flow[i - 1].TRADETIME + W

C1_CumulativeDeltaIsTotal ==
    /\ (result.op = "get_order_flow_metrics" /\ df # <<>>)
          => FlowIsPrefixSum(df, result.value, result.arg)
    /\ (pc = "analysed" /\ df # <<>>)
          => /\ FlowIsPrefixSum(df, report.order_flow_data, DefaultPeriod)
             /\ report.order_flow_data[Len(report.order_flow_data)].cumulative_delta
                   = report.summary_stats.delta

C1_Witness ==
    /\ result.op = "get_order_flow_metrics"
    /\ Len(result.value) >= 3
    /\ \E i \in 1..Len(result.value) : result.value[i].delta < 0
    /\ \E i \in 1..Len(result.value) : result.value[i].delta > 0
    /\ result.value[Len(result.value)].cumulative_delta # 0

----------------------------------------------------------------------------
(* Volume profile: raw frames whose rows differ in price and quantity *)

CallVolumeProfile ==
    /\ pc = "ready"
    /\ result.op = "none"
    /\ \E N \in (1..MaxBins) \cup {DefaultBins} :
          result' = [op |-> "get_volume_profile", arg |-> N,
                     value |-> GetVolumeProfile(df, N)]
    /\ UNCHANGED <<pc, raw, df, report, large_trades, text, scorer, calls, fs, batch, scan, gui, main>>

ProfilePrices == {10, 11, 13}
ProfileQtys == {1, 2}

InitProfile ==
    /\ pc = "new"
    /\ raw \in [has_value : {FALSE},
                rows : SeqsUpTo(RawRows({Num(0)}, {Num(p) : p \in ProfilePrices},
                                        {Num(n) : n \in ProfileQtys}, {Str}, {"B"}),
                                MaxRaw)]
    /\ df = <<>>
    /\ IdleRest

NextProfile == Construct \/ CallVolumeProfile

SpecProfile == InitProfile /\ [][NextProfile]_vars

ProfileCalled == result.op = "get_volume_profile" /\ df # <<>>

BinWidth(b) == b.right - b.left

\* the bins of the returned profile that hold price p (edges carry the factor 1000*N)
BinsHolding(vp, p) ==
    {k \in 1..Len(vp) : vp[k].left < 1000 * Len(vp) * p /\ 1000 * Len(vp) * p <= vp[k].right}

ProfileIsPartition(d, vp, N) ==
    LET prices == {d[i].PRICE.v : i \in 1..Len(d)}
    IN  /\ Len(vp) = N
        /\ \A k \in 1..N : vp[k].left < vp[k].right
        /\ \A k \in 1..(N - 1) : vp[k].right = vp[k + 1].left
        /\ vp[1].left < 1000 * N * SetMin(prices)
        /\ vp[N].right >= 1000 * N * SetMax(prices)
        /\ \A p \in prices : Cardinality(BinsHolding(vp, p)) = 1
        /\ SumSeq([k \in 1..N |-> vp[k].QUANTITY])
              = SumSeq([i \in 1..Len(d) |-> d[i].QUANTITY.v])

\* C2 as stated: the bins are contiguous, non-overlapping and of equal width,
\* every price falls in exactly one bin and the bin quantities sum to the
\* session quantity.
C2_EqualWidthPartition ==
    ProfileCalled =>
        /\ ProfileIsPartition(df, result.value.volume_profile, result.arg)
        /\ \A j, k \in 1..result.arg :
              BinWidth(result.value.volume_profile[j]) = BinWidth(result.value.volume_profile[k])

\* C2 amended: the bins are contiguous and non-overlapping and cover the
\* observed price range, every price (the lowest and the highest too) falls in
\* exactly one bin, the bin quantities sum to the session quantity, and the
\* bins have equal width except the lowest one, which reaches further down by
\* 0.1% of the price range when the prices differ.
C2_PartitionLowestBinWider ==
    ProfileCalled =>
        LET vp == result.value.volume_profile
            N  == result.arg
            prices == {df[i].PRICE.v : i \in 1..Len(df)}
            range  == SetMax(prices) - SetMin(prices)
        IN  /\ ProfileIsPartition(df, vp, N)
            /\ range > 0 =>
                  /\ \A k \in 2..N : BinWidth(vp[k]) = 1000 * range
                  /\ BinWidth(vp[1]) = 1000 * range + N * range
            /\ range = 0 =>
                  \A k \in 1..N : BinWidth(vp[k]) = 2 * SetMin(prices)

C2_Witness ==
    /\ ProfileCalled
    /\ result.arg >= 2
    /\ Len(df) = MaxRaw
    /\ \E i, j \in 1..Len(df) : df[i].PRICE.v < df[j].PRICE.v
    /\ result.value.volume_profile[1].QUANTITY > 0
    /\ result.value.volume_profile[result.arg].QUANTITY > 0

----------------------------------------------------------------------------
(* Large trades: raw frames whose rows differ in value and time *)

Quantiles == {0, 50, 90, DefaultQuantile, 100}

CallLargeTrades ==
    /\ pc = "ready"
    /\ result.op = "none"
    /\ \E q \in Quantiles :
          result' = [op |-> "get_large_trades", arg |-> q,
                     value |-> GetLargeTrades(df, q)]
    /\ UNCHANGED <<pc, raw, df, report, large_trades, text, scorer, calls, fs, batch, scan, gui, main>>

LargeTimes == {0, 5}
LargeValues == {10, 11, 40}

InitLarge ==
    /\ pc = "new"
    /\ raw \in [has_value : {TRUE},
                rows : SeqsUpTo(RawRows({Num(t) : t \in LargeTimes}, {Num(10)}, {Num(1)},
                                        {Num(v) : v \in LargeValues}, {"B"}),
                                MaxRaw)]
    /\ df = <<>>
    /\ IdleRest

NextLarge == Construct \/ CallLargeTrades

SpecLarge == InitLarge /\ [][NextLarge]_vars

LargeCalled == result.op = "get_large_trades" /\ df # <<>>

\* the position in the cleaned sequence of the trade that came from raw row no
PosOf(d, no) == CHOOSE i \in 1..Len(d) : d[i].no = no

\* C3: get_large_trades returns exactly the trades whose value is >= the
\* q-quantile of the session's values: every returned trade is at or above it,
\* every trade left out is strictly below it, and the returned trades stand in
\* the order of the cleaned (chronological) sequence.  The quantile lies between
\* the lowest and the highest value, so the highest-valued trade is always returned.
C3_LargeTradesAreUpperTail ==
    LargeCalled =>
        LET lt   == result.value
            thr  == Quantile100(Values(df), result.arg)
            nos  == {lt[i].no : i \in 1..Len(lt)}
        IN  /\ \A i \in 1..Len(lt) : 100 * lt[i].VALUE >= thr
            /\ \A i \in 1..Len(df) : df[i].no \notin nos => 100 * df[i].VALUE.v < thr
            /\ \A i \in 1..Len(lt) :
                  /\ lt[i].no \in {df[j].no : j \in 1..Len(df)}
                  /\ lt[i].VALUE = df[PosOf(df, lt[i].no)].VALUE.v
                  /\ lt[i].TRADETIME = df[PosOf(df, lt[i].no)].TRADETIME.v
            /\ \A i, j \in 1..Len(lt) :
                  i < j => /\ PosOf(df, lt[i].no) < PosOf(df, lt[j].no)
                           /\ lt[i].TRADETIME <= lt[j].TRADETIME
            /\ \E i \in 1..Len(lt) : \A j \in 1..Len(df) : df[j].VALUE.v <= lt[i].VALUE
            /\ Cardinality({i \in 1..Len(df) : df[i].no \notin nos}) * 100
                  <= (Len(df) - 1) * result.arg + 99

C3_Witness ==
    /\ LargeCalled
    /\ result.arg = DefaultQuantile
    /\ Len(df) = MaxRaw
    /\ Len(result.value) = 2
    /\ result.value[1].TRADETIME < result.value[2].TRADETIME
    /\ \E i \in 1..Len(df) : 100 * df[i].VALUE.v < Quantile100(Values(df), result.arg)

----------------------------------------------------------------------------
(* rank_candidates.py: ReportAnalyzer                                      *)
(*                                                                         *)
(* A report text is a sequence of phrases separated by single blanks; NL   *)
(* is a line break.  The phrases the rules look for, as they are written   *)
(* in the patterns (lower case):                                           *)
(*   bulls      "rynok byl pod kontrolem bykov"          line 22           *)
(*   close      "tsena zakrytiya"                        lines 25, 42      *)
(*   above_vwap "nakhoditsya vyshe vwap"                 line 25           *)
(*   buyback    "aktivnyy otkup na loyakh"               line 28           *)
(*   sell_culm  "kulminatsiya prodazh"                   line 31           *)
(*   poc_stab   "zakol urovnya poc"                      lines 34, 51      *)
(*   strength   "sile pokupateley"                       line 34           *)
(*   bears      "medvedi dominirovali"                   line 39           *)
(*   below_vwap "nakhoditsya nizhe vwap"                 line 42           *)
(*   unload     "razgruzka na khayakh"                   line 45           *)
(*   buy_culm   "kulminatsiya pokupok"                   line 48           *)
(*   weakness   "slabost pokupateley"                    line 51           *)
(* "other" is any other wording.  case is the letter case the text is      *)
(* written in.                                                             *)

Phrases == {"bulls", "close", "above_vwap", "buyback", "sell_culm", "poc_stab",
            "strength", "bears", "below_vwap", "unload", "buy_culm", "weakness"}

Words == Phrases \cup {"other", "NL"}

Cases == {"lower", "upper", "title"}

\* the rules of analyze() in the order the code tries them.  pattern is the one
\* phrase, or the two phrases around ".*?"; blanks tells whether the pattern
\* has a blank on each side of ".*?" (lines 25, 42) or none (lines 34, 51).
Rules ==
    << [pattern |-> <<"bulls">>, blanks |-> FALSE, side |-> "long", weight |-> 2,
        label |-> "Bychiy sentiment"],
       [pattern |-> <<"close", "above_vwap">>, blanks |-> TRUE, side |-> "long", weight |-> 1,
        label |-> "Tsena vyshe VWAP"],
       [pattern |-> <<"buyback">>, blanks |-> FALSE, side |-> "long", weight |-> 2,
        label |-> "Aktivnyy otkup"],
       [pattern |-> <<"sell_culm">>, blanks |-> FALSE, side |-> "long", weight |-> 3,
        label |-> "Kulminatsiya prodazh"],
       [pattern |-> <<"poc_stab", "strength">>, blanks |-> FALSE, side |-> "long", weight |-> 2,
        label |-> "Lozhnyy proboy POC (sila pokupateley)"],
       [pattern |-> <<"bears">>, blanks |-> FALSE, side |-> "short", weight |-> 2,
        label |-> "Medvezhiy sentiment"],
       [pattern |-> <<"close", "below_vwap">>, blanks |-> TRUE, side |-> "short", weight |-> 1,
        label |-> "Tsena nizhe VWAP"],
       [pattern |-> <<"unload">>, blanks |-> FALSE, side |-> "short", weight |-> 2,
        label |-> "Razgruzka na khayakh"],
       [pattern |-> <<"buy_culm">>, blanks |-> FALSE, side |-> "short", weight |-> 3,
        label |-> "Kulminatsiya pokupok"],
       [pattern |-> <<"poc_stab", "weakness">>, blanks |-> FALSE, side |-> "short", weight |-> 2,
        label |-> "Lozhnyy proboy POC (slabost pokupateley)"] >>

\* whether the i-th phrase of the text reads as the pattern's phrase w: with
\* re.I the letter case of the text does not matter
ReadsAsCaseSensitive(t, i, w) == t.words[i] = w /\ t.case = "lower"

ReadsAs(t, i, w) == t.words[i] = w

\* re.search(pattern, text, re.I): "." matches no line break, so the two
\* phrases of a ".*?" pattern must stand on one line; with a blank on each side
\* of ".*?" something must stand between the two phrases
Search(rule, t) ==
    IF Len(rule.pattern) = 1
    THEN \E i \in 1..Len(t.words) : ReadsAs(t, i, rule.pattern[1])
    ELSE \E i, j \in 1..Len(t.words) :
            /\ i < j
            /\ rule.blanks => i + 1 < j
            /\ ReadsAs(t, i, rule.pattern[1])
            /\ ReadsAs(t, j, rule.pattern[2])
            /\ \A k \in i..j : t.words[k] # "NL"

ApplyRulePerMatch(sc, rule, t) ==
    LET matches == Cardinality({i \in 1..Len(t.words) : ReadsAs(t, i, rule.pattern[1])})
    IN  IF ~Search(rule, t) THEN sc
        ELSE IF rule.side = "long"
        THEN [sc EXCEPT !.long_score = @ + matches * rule.weight,
                        !.long_reasons = Append(@, rule.label)]
        ELSE [sc EXCEPT !.short_score = @ + matches * rule.weight,
                        !.short_reasons = Append(@, rule.label)]

\* one "if re.search(...): score += weight; reasons.append(label)"
ApplyRule(sc, rule, t) ==
    IF ~Search(rule, t) THEN sc
    ELSE IF rule.side = "long"
    THEN [sc EXCEPT !.long_score = @ + rule.weight,
                    !.long_reasons = Append(@, rule.label)]
    ELSE [sc EXCEPT !.short_score = @ + rule.weight,
                    !.short_reasons = Append(@, rule.label)]

RECURSIVE ApplyRules(_, _, _)
\* the first n rules applied in order
ApplyRules(sc, n, t) ==
    IF n = 0 THEN sc ELSE ApplyRule(ApplyRules(sc, n - 1, t), Rules[n], t)

\* ReportAnalyzer.analyze on an analyzer whose fields are sc
AnalyzeOf(sc, t) == ApplyRules(sc, Len(Rules), t)

Analyze ==
    /\ pc = "scorer"
    /\ calls < MaxCalls
    /\ scorer' = AnalyzeOf(scorer, text)
    /\ calls' = calls + 1
    /\ UNCHANGED <<pc, raw, df, result, report, large_trades, text, fs, batch, scan, gui, main>>

\* ReportAnalyzer.__init__ on any text
InitScorer ==
    /\ pc = "scorer"
    /\ text \in [case : Cases, words : SeqsUpTo(Words, MaxText)]
    /\ scorer = NoScorer
    /\ calls = 0
    /\ fs = <<>>
    /\ batch = None
    /\ scan = None
    /\ gui = None
    /\ main = None
    /\ raw = [has_value |-> FALSE, rows |-> <<>>]
    /\ df = <<>>
    /\ result = NoResult
    /\ report = None
    /\ large_trades = <<>>

NextScorer == Analyze

SpecScorer == InitScorer /\ [][NextScorer]_vars

\* C4: scoring is idempotent: once analyze() has run, a further analyze() on
\* the same analyzer leaves the scores and the reason lists as the first call
\* left them.
C4_AnalyzeIdempotent ==
    calls >= 1 => scorer = AnalyzeOf(NoScorer, text)

Count(s, x) == Cardinality({i \in 1..Len(s) : s[i] = x})

RECURSIVE WeightOf(_, _)
\* the sum of the weights of the rules in the set of rule numbers
WeightOf(ns, n) ==
    IF n = 0 THEN 0
    ELSE WeightOf(ns, n - 1) + (IF n \in ns THEN Rules[n].weight ELSE 0)

\* C9: after one scoring pass, a text that holds the phrase "bulls" in any
\* letter case has the reason "Bychiy sentiment" exactly once among the long
\* reasons and not among the short ones, and its long score is 2 more than the
\* weights of the other long rules that match; each matching rule puts its
\* label once, and its weight, on its own side only, and a rule that does not
\* match puts nothing.
C9_BullPhraseScoresLongTwo ==
    calls = 1 =>
        LET long    == {n \in 1..Len(Rules) : Rules[n].side = "long" /\ Search(Rules[n], text)}
            short   == {n \in 1..Len(Rules) : Rules[n].side = "short" /\ Search(Rules[n], text)}
            hasBull == \E i \in 1..Len(text.words) : text.words[i] = "bulls"
        IN  /\ hasBull =>
                /\ Count(scorer.long_reasons, "Bychiy sentiment") = 1
                /\ Count(scorer.short_reasons, "Bychiy sentiment") = 0
                /\ scorer.long_score = 2 + WeightOf(long \ {1}, Len(Rules))
            /\ ~hasBull =>
                /\ Count(scorer.long_reasons, "Bychiy sentiment") = 0
                /\ scorer.long_score = WeightOf(long, Len(Rules))
            /\ scorer.short_score = WeightOf(short, Len(Rules))
            /\ \A n \in 1..Len(Rules) :
                  /\ Count(scorer.long_reasons, Rules[n].label) = IF n \in long THEN 1 ELSE 0
                  /\ Count(scorer.short_reasons, Rules[n].label) = IF n \in short THEN 1 ELSE 0
            /\ Len(scorer.long_reasons) = Cardinality(long)
            /\ Len(scorer.short_reasons) = Cardinality(short)

C9_Witness ==
    /\ calls = 1
    /\ text.case = "title"
    /\ \E i \in 1..Len(text.words) : text.words[i] = "bulls"
    /\ \E i \in 1..Len(text.words) : text.words[i] = "bears"
    /\ scorer.long_score = 2
    /\ scorer.short_score = 2
    /\ scorer.long_reasons = <<"Bychiy sentiment">>

----------------------------------------------------------------------------
(* algo_detector.py: AlgoDetector.detect_algo_signals                      *)
(*                                                                         *)
(* A large trade is a record [TRADETIME, PRICE, QUANTITY]; TRADETIME is    *)
(* the second of the day that datetime.fromisoformat reads.  A signal is a *)
(* record holding the numbers its message prints.                          *)

\* the k-th smallest member of a set of integers
Kth(S, k) == CHOOSE x \in S : Cardinality({y \in S : y <= x}) = k

\* Counter(vals).items(): <<value, count>> by first occurrence
CounterItems(vals) ==
    LET firsts == {i \in 1..Len(vals) : \A j \in 1..(i - 1) : vals[j] # vals[i]}
    IN  [k \in 1..Cardinality(firsts) |->
            LET v == vals[Kth(firsts, k)]
            IN  <<v, Cardinality({i \in 1..Len(vals) : vals[i] = v})>>]

\* sorted(items, key=count, reverse=True) when equal counts come out in
\* reverse order; counts[i] is the key of items[i]
SortedByCountTiesReversed(items, counts) ==
    LET n == Len(items)
        rank(i) == Cardinality({j \in 1..n : counts[j] > counts[i]})
                   + Cardinality({j \in (i + 1)..n : counts[j] = counts[i]}) + 1
    IN  [k \in 1..n |-> items[CHOOSE i \in 1..n : rank(i) = k]]

\* sorted(items, key=count, reverse=True): descending count, equal counts in
\* the order they had
SortedByCount(items, counts) ==
    LET n == Len(items)
        rank(i) == Cardinality({j \in 1..n : counts[j] > counts[i]})
                   + Cardinality({j \in 1..(i - 1) : counts[j] = counts[i]}) + 1
    IN  [k \in 1..n |-> items[CHOOSE i \in 1..n : rank(i) = k]]

Head3(s) == SubSeq(s, 1, IF Len(s) < 3 THEN Len(s) ELSE 3)
Head2(s) == SubSeq(s, 1, IF Len(s) < 2 THEN Len(s) ELSE 2)

SelectTally(items) == {k \in 1..Len(items) : items[k][2] >= 5}

\* lines 30 and 109: the values met 5 times or more, the 3 most frequent
Frequent(vals) ==
    LET items == CounterItems(vals)
        kept  == FilterSeq(items, SelectTally(items))
    IN  Head3(SortedByCount(kept, [k \in 1..Len(kept) |-> kept[k][2]]))

\* lines 28-33
SameQuantitySignal(lt) ==
    LET pos  == FilterSeq(lt, {i \in 1..Len(lt) : lt[i].QUANTITY > 0})
        freq == Frequent([i \in 1..Len(pos) |-> pos[i].QUANTITY])
    IN  IF freq # <<>> THEN <<[kind |-> "same_quantity", details |-> freq]>> ELSE <<>>

NoTime == -1

\* line 38
Intervals(lt) == [i \in 1..(Len(lt) - 1) |-> lt[i + 1].TRADETIME - lt[i].TRADETIME]

RECURSIVE FastSeqLoop(_, _, _)
\* lines 44-60: the loop over the first n intervals
FastSeqLoop(lt, iv, n) ==
    IF n = 0
    THEN [max_fast_seq |-> 0, current_fast_seq |-> 0,
          start_time_seq |-> NoTime, end_time_seq |-> NoTime]
    ELSE LET st == FastSeqLoop(lt, iv, n - 1)
         IN  IF iv[n] < 2
             THEN [st EXCEPT !.current_fast_seq = @ + 1,
                             !.start_time_seq =
                                 IF st.current_fast_seq = 0 THEN lt[n].TRADETIME ELSE @,
                             !.end_time_seq = lt[n + 1].TRADETIME]
             ELSE [st EXCEPT !.max_fast_seq =
                                 IF st.current_fast_seq > @ THEN st.current_fast_seq ELSE @,
                             !.current_fast_seq = 0,
                             !.start_time_seq = NoTime]

\* lines 36-69
RapidFireSignal(lt) ==
    LET iv == Intervals(lt)
        fast_count == Cardinality({i \in 1..Len(iv) : iv[i] < 2})
        st == FastSeqLoop(lt, iv, Len(iv))
        max_fast_seq == IF st.current_fast_seq > st.max_fast_seq
                        THEN st.current_fast_seq ELSE st.max_fast_seq
        time_info ==
            IF max_fast_seq > 1 /\ st.start_time_seq # NoTime /\ st.end_time_seq # NoTime
            THEN <<[count |-> max_fast_seq,
                    seconds |-> st.end_time_seq - st.start_time_seq,
                    start_time |-> st.start_time_seq,
                    end_time |-> st.end_time_seq]>>
            ELSE <<>>
    IN  IF fast_count > 10
        THEN <<[kind |-> "rapid_fire", fast_count |-> fast_count, time_info |-> time_info]>>
        ELSE <<>>

\* the inner loop with a window of less than 5 seconds
ClusterEndStrict(lt, i) ==
    LET within(j) == lt[j].TRADETIME - lt[i].TRADETIME < 5
        stops == {j \in (i + 1)..Len(lt) : ~within(j)}
    IN  IF stops = {} THEN Len(lt) ELSE SetMin(stops) - 1

\* lines 83-89: the last trade of the run that starts at i and stays within
\* 5 seconds of trade i
ClusterEnd(lt, i) ==
    LET within(j) == lt[j].TRADETIME - lt[i].TRADETIME <= 5
        stops == {j \in (i + 1)..Len(lt) : ~within(j)}
    IN  IF stops = {} THEN Len(lt) ELSE SetMin(stops) - 1

ConsumedNever(st, i) == FALSE

\* lines 76-77: if i in processed_indices: continue
Consumed(st, i) == i \in st.processed_indices

\* lines 75-98: the iteration for start index n on the loop variables st;
\* cluster_indices keeps the index set of every cluster that was retained
ClusterIteration(lt, st, n) ==
    LET k == ClusterEnd(lt, n)
    IN  IF Consumed(st, n) \/ k - n + 1 < 3 THEN st
        ELSE [st EXCEPT
                 !.cluster_details =
                     Append(@, [count |-> k - n + 1,
                                start_time |-> lt[n].TRADETIME,
                                end_time |-> lt[k].TRADETIME,
                                total_volume |->
                                    SumSeq([j \in 1..(k - n + 1) |-> lt[n + j - 1].QUANTITY])]),
                 !.processed_indices = @ \cup (n..k),
                 !.cluster_indices = Append(@, n..k)]

RECURSIVE ClusterScan(_, _)
\* lines 74-98: the loop over the first n start indices
ClusterScan(lt, n) ==
    IF n = 0
    THEN [cluster_details |-> <<>>, processed_indices |-> {}, cluster_indices |-> <<>>]
    ELSE ClusterIteration(lt, ClusterScan(lt, n - 1), n)

\* lines 73-105
ClusterSignal(lt) ==
    LET cd == ClusterScan(lt, Len(lt)).cluster_details
    IN  IF cd # <<>>
        THEN <<[kind |-> "clusters",
                total_clusters |-> Len(cd),
                total_clustered_trades |-> SumSeq([i \in 1..Len(cd) |-> cd[i].count]),
                top_clusters |-> Head2(SortedByCount(cd, [i \in 1..Len(cd) |-> cd[i].count]))]>>
        ELSE <<>>

\* lines 107-112
SamePriceSignal(lt) ==
    LET freq == Frequent([i \in 1..Len(lt) |-> lt[i].PRICE])
    IN  IF freq # <<>> THEN <<[kind |-> "same_price", details |-> freq]>> ELSE <<>>

\* detect_algo_signals without lines 24-25 and 114-115
DetectAlgoSignalsNoFallback(lt) ==
    IF lt = <<>> THEN <<>>
    ELSE SameQuantitySignal(lt) \o RapidFireSignal(lt)
         \o ClusterSignal(lt) \o SamePriceSignal(lt)

DetectAlgoSignalsOf(lt) ==
    IF lt = <<>> THEN <<[kind |-> "no_data"]>>
    ELSE LET signals == SameQuantitySignal(lt) \o RapidFireSignal(lt)
                        \o ClusterSignal(lt) \o SamePriceSignal(lt)
         IN  IF signals = <<>> THEN <<[kind |-> "no_signals"]>> ELSE signals

DetectAlgoSignals ==
    /\ pc = "detector"
    /\ result = NoResult
    /\ result' = [op |-> "detect_algo_signals", arg |-> 0,
                  value |-> DetectAlgoSignalsOf(large_trades)]
    /\ UNCHANGED <<pc, raw, df, report, large_trades, text, scorer, calls, fs, batch, scan, gui, main>>

IdleAnalyzer ==
    /\ raw = [has_value |-> FALSE, rows |-> <<>>]
    /\ df = <<>>
    /\ report = None
    /\ text = [case |-> "lower", words |-> <<>>]
    /\ scorer = NoScorer
    /\ calls = 0
    /\ fs = <<>>
    /\ batch = None
    /\ scan = None
    /\ gui = None
    /\ main = None

(* Large-trade lists with repeated quantities: runs of one quantity, ten   *)
(* seconds and one price step between consecutive trades.                  *)
RunQtys == {0, 120, 121, 122, 123}
RunLens == {1, 5}

RECURSIVE Unroll(_)
\* the quantities of a sequence of runs <<quantity, length>>
Unroll(runs) ==
    IF runs = <<>> THEN <<>>
    ELSE LET n == Len(runs)
         IN  Unroll(SubSeq(runs, 1, n - 1)) \o [i \in 1..runs[n][2] |-> runs[n][1]]

TradesOfRuns(runs) ==
    LET q == Unroll(runs)
    IN  [i \in 1..Len(q) |-> [TRADETIME |-> 10 * i, PRICE |-> 100 + i, QUANTITY |-> q[i]]]

\* AlgoDetector.__init__ on a list of runs
InitRuns ==
    /\ pc = "detector"
    /\ large_trades \in {TradesOfRuns(r) : r \in SeqsUpTo(RunQtys \X RunLens, MaxBlocks)}
    /\ result = NoResult
    /\ IdleAnalyzer

NextRuns == DetectAlgoSignals

SpecRuns == InitRuns /\ [][NextRuns]_vars

(* Large-trade lists with quick succession: gaps of 1 or 3 seconds, one    *)
(* quantity, one price step between consecutive trades.                    *)
GapSecs == {1, 3}

TradesOfGaps(gaps) ==
    [i \in 1..(Len(gaps) + 1) |->
        [TRADETIME |-> 36000 + SumRange(gaps, 1, i - 1), PRICE |-> 100 + i, QUANTITY |-> 7]]

\* AlgoDetector.__init__ on the empty list or on a list built from its gaps
InitGaps ==
    /\ pc = "detector"
    /\ large_trades \in {<<>>} \cup {TradesOfGaps(g) : g \in SeqsUpTo(GapSecs, MaxGaps)}
    /\ result = NoResult
    /\ IdleAnalyzer

NextGaps == DetectAlgoSignals

SpecGaps == InitGaps /\ [][NextGaps]_vars

Detected == result.op = "detect_algo_signals"

SignalsOf(kind) == {i \in 1..Len(result.value) : result.value[i].kind = kind}

\* the number of trades of quantity q
Occurs(q) == Cardinality({i \in 1..Len(large_trades) : large_trades[i].QUANTITY = q})

\* the position of the first trade of quantity q
FirstSeen(q) == SetMin({i \in 1..Len(large_trades) : large_trades[i].QUANTITY = q})

\* quantity a is reported ahead of quantity b
Ahead(a, b) ==
    \/ Occurs(a) > Occurs(b)
    \/ Occurs(a) = Occurs(b) /\ FirstSeen(a) < FirstSeen(b)

\* C8: for 12 large trades whose consecutive gaps are all under 2 seconds the
\* rapid-fire signal is emitted, and it reports the count 12 and a time span.
C8_TwelveTradesReportTwelve ==
    (/\ Detected
     /\ Len(large_trades) = 12
     /\ \A i \in 1..11 : large_trades[i + 1].TRADETIME - large_trades[i].TRADETIME < 2)
    => \E i \in SignalsOf("rapid_fire") :
          LET sig == result.value[i]
          IN  /\ sig.time_info # <<>>
              /\ sig.fast_count = 12 \/ sig.time_info[1].count = 12

\* C8, what the code does on that input: the signal is emitted with a span from
\* the first trade to the last, and both numbers it prints are 11, the number
\* of gaps.
C8_TwelveTradesReportEleven ==
    (/\ Detected
     /\ Len(large_trades) = 12
     /\ \A i \in 1..11 : large_trades[i + 1].TRADETIME - large_trades[i].TRADETIME < 2)
    => /\ Cardinality(SignalsOf("rapid_fire")) = 1
       /\ \A i \in SignalsOf("rapid_fire") :
             result.value[i] =
                 [kind |-> "rapid_fire", fast_count |-> 11,
                  time_info |-> <<[count |-> 11, seconds |-> 11,
                                   start_time |-> large_trades[1].TRADETIME,
                                   end_time |-> large_trades[12].TRADETIME]>>]

C8_Witness ==
    /\ Detected
    /\ Len(large_trades) = 12
    /\ \A i \in 1..11 : large_trades[i + 1].TRADETIME - large_trades[i].TRADETIME < 2
    /\ SignalsOf("rapid_fire") # {}

\* C10: the repeated-quantity signal is emitted exactly when some positive
\* quantity occurs 5 times or more among the large trades; it then lists at
\* most 3 quantities, each with its number of occurrences, the most frequent
\* first, equal counts in the order the quantities first occur, and no
\* quantity left out would come ahead of a listed one; five trades of quantity
\* 120, nothing else repeated, are listed as 120 with count 5.
C10_RepeatedQuantityTop3 ==
    Detected =>
        LET qual == {q \in RunQtys : q > 0 /\ Occurs(q) >= 5}
            sigs == SignalsOf("same_quantity")
        IN  /\ (sigs # {}) <=> (qual # {})
            /\ Cardinality(sigs) <= 1
            /\ \A s \in sigs :
                  LET d == result.value[s].details
                      listed == {d[k][1] : k \in 1..Len(d)}
                  IN  /\ s = 1
                      /\ Len(d) = IF Cardinality(qual) < 3 THEN Cardinality(qual) ELSE 3
                      /\ listed \subseteq qual
                      /\ \A k \in 1..Len(d) : d[k][2] = Occurs(d[k][1])
                      /\ \A k \in 1..(Len(d) - 1) : Ahead(d[k][1], d[k + 1][1])
                      /\ \A q \in qual \ listed : \A r \in listed : Ahead(r, q)
                      /\ (qual = {120} /\ Occurs(120) = 5) => d = << <<120, 5>> >>

\* three quantities repeated, equal counts among them, both listed behind a
\* more frequent quantity that first occurs later
C10_Witness ==
    /\ Detected
    /\ Cardinality({q \in RunQtys : q > 0 /\ Occurs(q) >= 5}) = 3
    /\ \E s \in SignalsOf("same_quantity") :
          LET d == result.value[s].details
          IN  /\ Len(d) = 3
              /\ d[1][2] > d[2][2]
              /\ d[2][2] = d[3][2]
              /\ FirstSeen(d[1][1]) > FirstSeen(d[2][1])

C10_WitnessFiveOf120 ==
    /\ Detected
    /\ Occurs(120) = 5
    /\ result.value[1] = [kind |-> "same_quantity", details |-> << <<120, 5>> >>]

----------------------------------------------------------------------------
(* report_generator.py: ReportGenerator._find_weakness_levels              *)
(*                                                                         *)
(* Here a large trade is a record [TRADETIME, PRICE, QUANTITY, BUYSELL],   *)
(* prices are positive whole price steps.                                  *)

\* line 55: the 90th percentile of the quantities, by position
WeaknessThreshold(quantities) ==
    IF Len(quantities) > 1
    THEN SortAsc(quantities)[((9 * Len(quantities)) \div 10) + 1]
    ELSE quantities[1]

\* line 79: abs(w.price - g.price) / g.price >= 0.0005
ApartOrEqual(w, g) == 10000 * Abs(w.price - g.price) >= 5 * g.price

\* line 79: abs(w.price - g.price) / g.price > 0.0005
Apart(w, g) == 10000 * Abs(w.price - g.price) > 5 * g.price

\* lines 58-75: the weakness found at position i of the filtered trades, if any
WeaknessAt(filtered, i) ==
    LET t == filtered[i]
        last == IF i + 5 < Len(filtered) THEN i + 5 ELSE Len(filtered)
        future_prices == {filtered[j].PRICE : j \in (i + 1)..last}
    IN  IF future_prices = {} THEN <<>>
        ELSE IF t.BUYSELL = "B" /\ SetMax(future_prices) < t.PRICE
        THEN <<[price |-> t.PRICE, label |-> "Slabost pokupateley",
                time |-> t.TRADETIME, qty |-> t.QUANTITY]>>
        ELSE IF t.BUYSELL = "S" /\ SetMin(future_prices) > t.PRICE
        THEN <<[price |-> t.PRICE, label |-> "Slabost prodavtsov",
                time |-> t.TRADETIME, qty |-> t.QUANTITY]>>
        ELSE <<>>

RECURSIVE Weakness(_, _)
\* lines 58-75: the loop over the first n filtered trades
Weakness(filtered, n) ==
    IF n = 0 THEN <<>> ELSE Weakness(filtered, n - 1) \o WeaknessAt(filtered, n)

RECURSIVE Grouped(_, _)
\* lines 77-80: the loop over the first n sorted weaknesses
Grouped(ws, n) ==
    IF n = 0 THEN <<>>
    ELSE LET grouped == Grouped(ws, n - 1)
         IN  IF \A k \in 1..Len(grouped) : Apart(ws[n], grouped[k])
             THEN Append(grouped, ws[n]) ELSE grouped

FindWeaknessLevelsOf(lt) ==
    IF lt = <<>> THEN <<>>
    ELSE LET quantities == [i \in 1..Len(lt) |-> lt[i].QUANTITY]
             threshold  == WeaknessThreshold(quantities)
             filtered   == FilterSeq(lt, {i \in 1..Len(lt) : lt[i].QUANTITY >= threshold})
             weakness   == Weakness(filtered, Len(filtered) - 1)
             sorted     == SortedByCount(weakness, [i \in 1..Len(weakness) |-> weakness[i].qty])
             grouped    == Grouped(sorted, Len(sorted))
             side(l)    == FilterSeq(grouped, {k \in 1..Len(grouped) : grouped[k].label = l})
         IN  Head3(side("Slabost pokupateley")) \o Head3(side("Slabost prodavtsov"))

FindWeaknessLevels ==
    /\ pc = "generator"
    /\ result = NoResult
    /\ result' = [op |-> "_find_weakness_levels", arg |-> 0,
                  value |-> FindWeaknessLevelsOf(large_trades)]
    /\ UNCHANGED <<pc, raw, df, report, large_trades, text, scorer, calls, fs, batch, scan, gui, main>>

WeakPrices == {1998, 1999, 2000, 2001}
WeakQtys == {1, 2}

\* ReportGenerator.__init__ on a report with these large trades, one second
\* apart
InitWeak ==
    /\ pc = "generator"
    /\ \E s \in SeqsUpTo(WeakPrices \X WeakQtys \X {"B", "S"}, MaxWeak) :
          large_trades = [i \in 1..Len(s) |->
                             [TRADETIME |-> i, PRICE |-> s[i][1],
                              QUANTITY |-> s[i][2], BUYSELL |-> s[i][3]]]
    /\ result = NoResult
    /\ IdleAnalyzer

NextWeak == FindWeaknessLevels

SpecWeak == InitWeak /\ [][NextWeak]_vars

WeaknessFound == result.op = "_find_weakness_levels"

\* level a is tried for retention before level b: larger quantity first, equal
\* quantities in trade order
RetainedBefore(a, b) == a.qty > b.qty \/ (a.qty = b.qty /\ a.time < b.time)

\* C5: any two weakness levels returned differ in price by more than 0.05%,
\* whichever of the two prices is the base of the percentage.
C5_LevelsApartEitherBase ==
    WeaknessFound =>
        \A i, j \in 1..Len(result.value) :
            i # j => /\ Apart(result.value[i], result.value[j])
                     /\ Apart(result.value[j], result.value[i])

\* C5 as the code has it: any two weakness levels returned differ in price by
\* more than 0.05% of the price of the one that was retained first (the one of
\* larger quantity, of two equal quantities the earlier trade); hence by more
\* than 0.05% of the lower of the two prices.
C5_LevelsApartFromEarlierRetained ==
    WeaknessFound =>
        \A i, j \in 1..Len(result.value) :
            LET a == result.value[i]
                b == result.value[j]
            IN  /\ RetainedBefore(a, b) => 10000 * Abs(b.price - a.price) > 5 * a.price
                /\ i # j => /\ RetainedBefore(a, b) \/ RetainedBefore(b, a)
                            /\ 10000 * Abs(b.price - a.price)
                                   > 5 * (IF a.price < b.price THEN a.price ELSE b.price)

\* two sellers' levels, 1999 retained first and then 2000, which is 0.05% of
\* 2000 away
C5_Witness ==
    /\ WeaknessFound
    /\ Len(result.value) = 2
    /\ result.value[1].price = 1999
    /\ result.value[2].price = 2000
    /\ result.value[1].label = "Slabost prodavtsov"
    /\ result.value[2].label = "Slabost prodavtsov"

----------------------------------------------------------------------------
(* report_generator.py: ReportGenerator.generate_full_report               *)
(*                                                                         *)
(* data is the analysis report as the generator reads it back from its     *)
(* JSON file.  The narrative is a sequence of parts; a part is a record    *)
(* that names the sentence the code writes and holds the numbers it puts   *)
(* in.  The rulers between the sections are left out.  A part of kind      *)
(* "raise" stands for an exception that leaves generate_full_report.       *)

Raise(what) == <<[kind |-> "raise", what |-> what]>>

\* a number as the exact ratio num/den, den > 0
Ratio(n, d) == [k |-> "some", num |-> n, den |-> d]
Less(a, b) == a.num * b.den < b.num * a.den
\* abs(a - b) < b * 0.0005
Near(a, b) == 10000 * Abs(a.num * b.den - b.num * a.den) < 5 * b.num * a.den
Falsy(x) == x.k = "none" \/ x.num = 0

\* lines 33-44: fromisoformat(None) raises inside the try
FormatPeriod(data) ==
    <<[kind |-> "period",
       parsed |-> ~IsNa(data.data_period.start) /\ ~IsNa(data.data_period.end)]>>

OverallSentimentBullsFromZero(data) ==
    LET delta == data.summary_stats.delta
    IN  <<[kind |-> "sentiment",
           phrase |-> IF delta >= 0 THEN "bulls" ELSE IF delta < 0 THEN "bears" ELSE "balance",
           delta |-> delta]>>

\* lines 208-216
OverallSentiment(data) ==
    LET delta == data.summary_stats.delta
    IN  <<[kind |-> "sentiment",
           phrase |-> IF delta > 0 THEN "bulls" ELSE IF delta < 0 THEN "bears" ELSE "balance",
           delta |-> delta]>>

\* lines 222-232 and 323-332: the price of the last large trade; when there is
\* none (or it is 0), the left edge of the last bin of the volume profile
LastPrice(data) ==
    LET lt == data.large_trades
        vp == data.volume_profile
        last_price == IF lt # <<>> THEN Ratio(lt[Len(lt)].PRICE, 1) ELSE None
    IN  IF Falsy(last_price) /\ vp # <<>>
        THEN Ratio(vp[Len(vp)].left, 1000 * Len(vp))
        ELSE last_price

\* lines 218-242 without the guard of line 233
PriceVsVwapUnguarded(data) ==
    LET final_vwap == data.summary_stats.final_vwap
        last_price == LastPrice(data)
    IN  IF final_vwap.k = "none" \/ last_price.k = "none" THEN Raise("TypeError")
        ELSE <<[kind |-> "price_vs_vwap",
                outcome |-> IF Near(last_price, final_vwap) THEN "near"
                            ELSE IF Less(final_vwap, last_price) THEN "above" ELSE "below"]>>

\* lines 218-242
PriceVsVwap(data) ==
    LET final_vwap == data.summary_stats.final_vwap
        last_price == LastPrice(data)
    IN  IF Falsy(last_price) THEN <<[kind |-> "price_vs_vwap", outcome |-> "no_data"]>>
        ELSE IF final_vwap.k = "none" THEN Raise("TypeError")
        ELSE <<[kind |-> "price_vs_vwap",
                outcome |-> IF Near(last_price, final_vwap) THEN "near"
                            ELSE IF Less(final_vwap, last_price) THEN "above" ELSE "below"]>>

FirstIndex(s, x) == SetMin({i \in 1..Len(s) : s[i] = x})

FellFromPeakOrEqual(peak, final) == 10 * (peak - final) >= 3 * peak

\* (peak - final) / peak > 0.3
FellFromPeak(peak, final) == 10 * (peak - final) > 3 * peak
\* (final - trough) / abs(trough) > 0.3
RoseFromTrough(trough, final) == 10 * (final - trough) > 3 * Abs(trough)

\* lines 244-290
AnalyzeSessionDynamics(data) ==
    LET of == data.order_flow_data
        deltas == [i \in 1..Len(of) |-> of[i].cumulative_delta]
        note(n, at, v) == <<[kind |-> "dynamics", note |-> n, time |-> at, delta |-> v]>>
    IN  IF of = <<>> THEN <<[kind |-> "dynamics", note |-> "no_data"]>>
        ELSE LET min_delta == SetMin(Range(deltas))
                 max_delta == SetMax(Range(deltas))
                 min_time  == of[FirstIndex(deltas, min_delta)].TRADETIME
                 max_time  == of[FirstIndex(deltas, max_delta)].TRADETIME
                 final     == deltas[Len(deltas)]
             IN  note(IF deltas[1] < 0 THEN "open_bears" ELSE "open_bulls",
                      of[1].TRADETIME, deltas[1])
                 \o (IF max_delta # min_delta
                     THEN note("sellers_peak", min_time, min_delta)
                          \o note("buyers_peak", max_time, max_delta)
                     ELSE <<[kind |-> "dynamics", note |-> "no_peaks"]>>)
                 \o (IF /\ max_delta > 0
                        /\ FirstIndex(deltas, max_delta) < Len(deltas)
                        /\ FellFromPeak(max_delta, final)
                     THEN note("unloading", max_time, final) ELSE <<>>)
                 \o (IF /\ min_delta < 0
                        /\ FirstIndex(deltas, min_delta) < Len(deltas)
                        /\ RoseFromTrough(min_delta, final)
                     THEN note("buyback", min_time, final) ELSE <<>>)

\* lines 292-301
KeyLevels(data) ==
    IF data.summary_stats.poc.k # "none"
    THEN <<[kind |-> "key_level", note |-> "poc", poc |-> data.summary_stats.poc],
           [kind |-> "key_level", note |-> "expect_activity"]>>
    ELSE <<[kind |-> "key_level", note |-> "no_poc"]>>

RECURSIVE TopByCount(_, _, _)
\* sorted(items, key=count, reverse=True)[:n] as positions, the positions in
\* taken left out: the first of the largest count, then the same of the rest
TopByCount(counts, n, taken) ==
    LET rest == (1..Len(counts)) \ taken
    IN  IF n = 0 \/ rest = {} THEN <<>>
        ELSE LET most == SetMax({counts[i] : i \in rest})
                 i == SetMin({j \in rest : counts[j] = most})
             IN  <<i>> \o TopByCount(counts, n - 1, taken \cup {i})

\* lines 86-102: one part, its lines joined
TradeLevelsBlock(data) ==
    LET vp == data.volume_profile
        lt == data.large_trades
    IN  <<[kind |-> "trade_levels",
           poc |-> data.summary_stats.poc,
           clusters |-> LET top == TopByCount([i \in 1..Len(vp) |-> vp[i].QUANTITY], 3, {})
                        IN  [k \in 1..Len(top) |-> vp[top[k]]],
           weakness |-> FindWeaknessLevelsOf(lt)]>>

RECURSIVE Unique(_, _)
\* lines 153-161: the first n trades without those whose key was seen; the
\* loop stops once top_n are kept
Unique(trades, n) ==
    IF n = 0 THEN <<>>
    ELSE LET kept == Unique(trades, n - 1)
             key(t) == <<t.TRADETIME, t.PRICE, t.QUANTITY, t.BUYSELL>>
         IN  IF \E k \in 1..Len(kept) : key(kept[k]) = key(trades[n])
             THEN kept ELSE Append(kept, trades[n])

\* lines 148-172
TopTradesBlock(data) ==
    LET lt == data.large_trades
        by_value == SortedByCount(lt, [i \in 1..Len(lt) |-> lt[i].VALUE])
    IN  IF lt = <<>> THEN <<[kind |-> "top_trades", trades |-> <<>>]>>
        ELSE <<[kind |-> "top_trades", trades |-> Head3(Unique(by_value, Len(by_value)))]>>

LastOfAndOneMore(s, n) == SubSeq(s, IF Len(s) > n + 1 THEN Len(s) - n ELSE 1, Len(s))

LastOfWhole(s, n) == s

\* s[-n:]
LastOf(s, n) == SubSeq(s, IF Len(s) > n THEN Len(s) - n + 1 ELSE 1, Len(s))

QtyOf(trades, side) ==
    SumSeq([i \in 1..Len(trades) |-> IF trades[i].BUYSELL = side THEN trades[i].QUANTITY ELSE 0])

CountOf(trades, side) == Cardinality({i \in 1..Len(trades) : trades[i].BUYSELL = side})

\* lines 115-126
FindCulmination(data) ==
    LET last_trades == LastOf(data.large_trades, 10)
    IN  IF data.large_trades = <<>> THEN <<>>
        ELSE IF CountOf(last_trades, "B") >= 6 /\ QtyOf(last_trades, "B") > QtyOf(last_trades, "S")
        THEN <<[kind |-> "culmination", side |-> "buy_culm"]>>
        ELSE IF CountOf(last_trades, "S") >= 6 /\ QtyOf(last_trades, "S") > QtyOf(last_trades, "B")
        THEN <<[kind |-> "culmination", side |-> "sell_culm"]>>
        ELSE <<>>

\* lines 175-201
Top50TradesBlock(data) ==
    LET lt == data.large_trades
        by_value == SortedByCount(lt, [i \in 1..Len(lt) |-> lt[i].VALUE])
        top_trades == SubSeq(by_value, 1, IF Len(lt) < 50 THEN Len(lt) ELSE 50)
        total_buys == CountOf(top_trades, "B")
        total_sells == CountOf(top_trades, "S")
    IN  IF lt = <<>> THEN <<[kind |-> "top50", trades |-> <<>>, character |-> "no_data"]>>
        ELSE <<[kind |-> "top50", trades |-> top_trades,
                character |-> IF total_buys > total_sells THEN "buys"
                              ELSE IF total_sells > total_buys THEN "sells" ELSE "balanced"]>>

\* lines 204-206
AlgoAndMmSignals(data) ==
    LET signals == DetectAlgoSignalsOf(data.large_trades)
    IN  [i \in 1..Len(signals) |-> [kind |-> "algo_signal", signal |-> signals[i]]]

\* "{x:.2f}" of the number n/d, in hundredths
RoundCents(n, d) ==
    LET q == (100 * n) \div d
        r == (100 * n) % d
    IN  IF 2 * r > d \/ (2 * r = d /\ q % 2 = 1) THEN q + 1 ELSE q

\* lines 135 and 343: float(str(poc).split('-')[0].strip()) of the text
\* "{left:.2f} - {right:.2f}" that line 89 of analiz.py writes; a negative left
\* edge leaves nothing before the first '-', and float('') raises
PocLevel(data) ==
    LET cents == RoundCents(data.summary_stats.poc.left, 1000 * Len(data.volume_profile))
    IN  IF data.summary_stats.poc.left < 0 THEN None ELSE Ratio(cents, 100)

\* lines 128-146
FindFakeBreak(data) ==
    LET lt == data.large_trades
        poc == data.summary_stats.poc
        vwap == data.summary_stats.final_vwap
    IN  IF poc.k = "none" \/ Falsy(vwap) \/ lt = <<>> THEN <<>>
        ELSE LET poc_level == PocLevel(data)
                 last_price == Ratio(lt[Len(lt)].PRICE, 1)
                 last20 == LastOf(lt, 20)
                 prices == {last20[i].PRICE : i \in 1..Len(last20)}
             IN  IF Falsy(last_price) \/ Falsy(poc_level) THEN <<>>
                 ELSE IF Less(poc_level, Ratio(SetMax(prices), 1)) /\ Less(last_price, poc_level)
                 THEN <<[kind |-> "risk", note |-> "fake_break_up"]>>
                 ELSE IF Less(Ratio(SetMin(prices), 1), poc_level) /\ Less(poc_level, last_price)
                 THEN <<[kind |-> "risk", note |-> "fake_break_down"]>>
                 ELSE <<>>

\* lines 303-372
RiskAndAlternative(data) ==
    LET of == data.order_flow_data
        lt == data.large_trades
        deltas == [i \in 1..Len(of) |-> of[i].cumulative_delta]
        risk(n) == <<[kind |-> "risk", note |-> n]>>
    IN  IF deltas = <<>> THEN risk("no_data")
        ELSE LET max_delta == SetMax(Range(deltas))
                 min_delta == SetMin(Range(deltas))
                 final == deltas[Len(deltas)]
                 final_vwap == data.summary_stats.final_vwap
                 poc == data.summary_stats.poc
                 last_price == LastPrice(data)
                 last10 == LastOf(lt, 10)
                 prices == {last10[i].PRICE : i \in 1..Len(last10)}
                 max_price_trade ==
                     last10[SetMin({i \in 1..Len(last10) : last10[i].PRICE = SetMax(prices)})]
                 min_price_trade ==
                     last10[SetMin({i \in 1..Len(last10) : last10[i].PRICE = SetMin(prices)})]
                 risks ==
                     (IF max_delta > 0 /\ FellFromPeak(max_delta, final)
                      THEN risk("unload") ELSE <<>>)
                     \o (IF min_delta < 0 /\ RoseFromTrough(min_delta, final)
                         THEN risk("buyback") ELSE <<>>)
                     \o (IF Falsy(final_vwap) \/ Falsy(last_price) THEN <<>>
                         ELSE IF Less(last_price, final_vwap) THEN risk("close_below_vwap")
                         ELSE IF Less(final_vwap, last_price) /\ Near(last_price, final_vwap)
                         THEN risk("held_at_vwap") ELSE <<>>)
                     \o (IF poc.k = "none" \/ Falsy(last_price) THEN <<>>
                         ELSE LET poc_level == PocLevel(data)
                              IN  IF poc_level.k = "none" THEN <<>>
                                  ELSE IF Less(last_price, poc_level) THEN risk("close_below_poc")
                                  ELSE IF Less(poc_level, last_price) /\ Near(last_price, poc_level)
                                  THEN risk("held_at_poc") ELSE <<>>)
                     \o (IF Len(deltas) > 5 /\ final < deltas[Len(deltas) - 4]
                         THEN risk("late_drop") ELSE <<>>)
                     \o (IF lt = <<>> THEN <<>>
                         ELSE (IF max_price_trade.BUYSELL = "S" THEN risk("sells_at_high") ELSE <<>>)
                              \o (IF min_price_trade.BUYSELL = "B" THEN risk("buys_at_low")
                                  ELSE <<>>))
                     \o FindFakeBreak(data)
             IN  IF risks = <<>> THEN risk("none") ELSE risks

\* lines 417-423
Conclusions(data) ==
    LET delta == data.summary_stats.delta
    IN  <<[kind |-> "conclusion",
           mood |-> IF delta > 0 THEN "bullish" ELSE IF delta < 0 THEN "bearish" ELSE "neutral"],
          [kind |-> "conclusion_levels",
           poc |-> data.summary_stats.poc, vwap |-> data.summary_stats.final_vwap],
          [kind |-> "conclusion_warning"]>>

\* lines 424-429
HourlyAppendix(data) ==
    LET hs == data.hourly_stats
    IN  IF hs = <<>> THEN <<>>
        ELSE <<[kind |-> "hourly_header"]>>
             \o [i \in 1..Len(hs) |-> [kind |-> "hourly", stats |-> hs[i]]]

HeaderUnnumbered(n) == <<[kind |-> "header", n |-> 1]>>

\* the line that opens section n
Header(n) == <<[kind |-> "header", n |-> n]>>

\* lines 374-430: the parts in the order they are written
ReportParts(data) ==
    <<[kind |-> "title", ticker |-> data.ticker]>> \o FormatPeriod(data)
    \o Header(1) \o OverallSentiment(data) \o PriceVsVwap(data)
    \o Header(2) \o AnalyzeSessionDynamics(data)
    \o Header(3) \o KeyLevels(data)
    \o Header(4) \o TradeLevelsBlock(data)
    \o Header(5) \o TopTradesBlock(data) \o FindCulmination(data)
    \o Header(6) \o Top50TradesBlock(data)
    \o Header(7) \o AlgoAndMmSignals(data)
    \o Header(8) \o RiskAndAlternative(data)
    \o Header(9) \o Conclusions(data)
    \o HourlyAppendix(data)

GenerateFullReportOf(data) ==
    LET parts == ReportParts(data)
    IN  IF \E i \in 1..Len(parts) : parts[i].kind = "raise"
        THEN [raised |-> TRUE, parts |-> <<>>]
        ELSE [raised |-> FALSE, parts |-> parts]

\* ReportGenerator(data).generate_full_report() on the report of
\* run_full_analysis
GenerateFullReport ==
    /\ pc = "analysed"
    /\ LET out == GenerateFullReportOf(report)
       IN  /\ pc' = IF out.raised THEN "report_raised" ELSE "reported"
           /\ result' = [op |-> "generate_full_report", arg |-> 0, value |-> out.parts]
    /\ UNCHANGED <<raw, df, report, large_trades, text, scorer, calls, fs, batch, scan, gui, main>>

----------------------------------------------------------------------------
(* The pipeline on one instrument: TickerAnalyzer(trades_df),              *)
(* run_full_analysis(), ReportGenerator(report).generate_full_report().    *)
(* The raw rows are well-formed trades and rows with one cell that cannot  *)
(* be read.                                                                *)

GoodBuy ==
    [TRADETIME |-> Num(36000), PRICE |-> Num(10), QUANTITY |-> Num(2), VALUE |-> Num(20),
     BUYSELL |-> "B"]
GoodSell ==
    [TRADETIME |-> Num(36060), PRICE |-> Num(11), QUANTITY |-> Num(1), VALUE |-> Num(11),
     BUYSELL |-> "S"]

PipeRows ==
    {GoodBuy, GoodSell,
     [GoodBuy EXCEPT !.TRADETIME = Str], [GoodBuy EXCEPT !.PRICE = Str],
     [GoodBuy EXCEPT !.QUANTITY = Str], [GoodBuy EXCEPT !.VALUE = Str]}

InitPipeline ==
    /\ pc = "new"
    /\ raw \in [has_value : BOOLEAN, rows : SeqsUpTo(PipeRows, MaxRaw)]
    /\ df = <<>>
    /\ IdleRest

NextPipeline == Construct \/ RunFullAnalysis \/ GenerateFullReport

SpecPipeline == InitPipeline /\ [][NextPipeline]_vars

\* a raw row that the cleaning drops
Malformed(r) ==
    \/ r.TRADETIME.k # "num"
    \/ r.PRICE.k # "num"
    \/ r.QUANTITY.k # "num"
    \/ raw.has_value /\ r.VALUE.k # "num"

\* no row is left after the cleaning: there is none, or all are malformed
CleanedEmpty == \A i \in 1..Len(raw.rows) : Malformed(raw.rows[i])

Constructed == pc \in {"ready", "analysed", "reported", "report_raised"}

\* summary statistics all zero or null, every series empty
ZeroReport ==
    /\ report.summary_stats = [total_trades |-> 0, total_volume |-> 0, buy_volume |-> 0,
                               sell_volume |-> 0, delta |-> 0, poc |-> None,
                               final_vwap |-> None]
    /\ report.order_flow_data = <<>>
    /\ report.volume_profile = <<>>
    /\ report.large_trades = <<>>
    /\ report.hourly_stats = <<>>

\* C6: trade input that is empty, through construction, run_full_analysis and
\* generate_full_report, gives a report whose summary statistics are all zero
\* or null with empty series, and the narrative is written without raising.
C6_EmptyInputGivesZeroReport ==
    CleanedEmpty =>
        /\ pc \notin {"raised", "report_raised"}
        /\ pc \in {"analysed", "reported"} => ZeroReport

\* C6 as the code has it: when the raw input has rows and the cleaning drops
\* them all, the report has summary statistics all zero or null and empty
\* series and the narrative is written without raising, with its nine sections
\* and the no-data sentences; when the raw input has no row, construction
\* raises and there is no report.
C6_AllRowsDroppedGivesZeroReport ==
    /\ (CleanedEmpty /\ raw.rows # <<>>) =>
          /\ pc \notin {"raised", "report_raised"}
          /\ pc \in {"analysed", "reported"} => ZeroReport /\ report.ticker = "Unknown"
          /\ pc = "reported" =>
                /\ {n \in 1..9 : \E i \in 1..Len(result.value) :
                        result.value[i] = [kind |-> "header", n |-> n]} = 1..9
                /\ \E i \in 1..Len(result.value) :
                      result.value[i] = [kind |-> "price_vs_vwap", outcome |-> "no_data"]
                /\ \E i \in 1..Len(result.value) :
                      result.value[i] = [kind |-> "algo_signal", signal |-> [kind |-> "no_data"]]
    /\ raw.rows = <<>> => pc \in {"new", "raised"} /\ report = None

C6_Witness ==
    /\ pc = "reported"
    /\ raw.rows # <<>>
    /\ CleanedEmpty
    /\ ZeroReport
    /\ \E i \in 1..Len(result.value) : result.value[i] = [kind |-> "risk", note |-> "no_data"]

\* C7: an error is raised whenever no row is left after the cleaning, for an
\* empty raw input and for one whose rows are all malformed alike, and no
\* analyzer is ever returned that holds an empty cleaned sequence.
C7_ErrorWheneverCleanedEmpty ==
    /\ CleanedEmpty => pc \in {"new", "raised"}
    /\ Constructed => df # <<>>

\* C7 as the code has it: the error is raised exactly when the raw input has no
\* row; when the raw input has rows, an analyzer is returned that holds the
\* well-formed rows, none if the cleaning drops them all.
C7_ErrorOnlyWhenRawEmpty ==
    /\ pc = "raised" => raw.rows = <<>>
    /\ raw.rows = <<>> => pc \in {"new", "raised"}
    /\ Constructed =>
          /\ Len(df) = Cardinality({i \in 1..Len(raw.rows) : ~Malformed(raw.rows[i])})
          /\ CleanedEmpty <=> df = <<>>

C7_Witness ==
    /\ pc = "ready"
    /\ Len(raw.rows) = MaxRaw
    /\ CleanedEmpty
    /\ df = <<>>

----------------------------------------------------------------------------
(* Further properties of detect_algo_signals                               *)

Fired(lt) ==
    \/ SameQuantitySignal(lt) # <<>>
    \/ RapidFireSignal(lt) # <<>>
    \/ ClusterSignal(lt) # <<>>
    \/ SamePriceSignal(lt) # <<>>

Explanations == {[kind |-> "no_data"], [kind |-> "no_signals"]}

\* C11: detect_algo_signals never returns an empty list; when the list of large
\* trades is empty or none of the four heuristics fires it returns exactly one
\* explanatory message, and when a heuristic fires no explanatory message is
\* among the signals returned.
C11_NeverEmptyOneExplanation ==
    Detected =>
        /\ result.value # <<>>
        /\ (large_trades = <<>> \/ ~Fired(large_trades)) =>
              Len(result.value) = 1 /\ result.value[1] \in Explanations
        /\ (large_trades # <<>> /\ Fired(large_trades)) =>
              \A i \in 1..Len(result.value) : result.value[i] \notin Explanations
        /\ large_trades = <<>> <=> result.value = <<[kind |-> "no_data"]>>

\* four trades three seconds apart: no heuristic fires
C11_Witness ==
    /\ Detected
    /\ Len(large_trades) = 4
    /\ result.value = <<[kind |-> "no_signals"]>>

----------------------------------------------------------------------------
(* rank_candidates.py: rank_reports, print_summary, run_ranking            *)
(*                                                                         *)
(* fs is the reports folder: whether it is a directory, and its files in   *)
(* the order os.listdir gives them.  A file has the ticker of its name     *)
(* (here its position), the suffix of its name, and a text, or no text     *)
(* when reading it raises.                                                 *)

Unreadable == [case |-> "none", words |-> <<>>]

NonNegative(score) == score >= 0

\* lines 86-87: c['long_score'] > 0
Positive(score) == score > 0

RECURSIVE Candidates(_, _)
\* lines 65-83: the loop over the first n files
Candidates(files, n) ==
    IF n = 0 THEN <<>>
    ELSE LET f == files[n]
             sc == AnalyzeOf(NoScorer, f.text)
         IN  IF f.suffix # ".txt" \/ f.text = Unreadable THEN Candidates(files, n - 1)
             ELSE Append(Candidates(files, n - 1),
                         [ticker |-> f.ticker,
                          long_score |-> sc.long_score, short_score |-> sc.short_score,
                          long_reasons |-> sc.long_reasons, short_reasons |-> sc.short_reasons])

\* lines 55-89
RankReports(folder) ==
    IF ~folder.isdir THEN [long_candidates |-> <<>>, short_candidates |-> <<>>]
    ELSE LET candidates == Eager(Candidates(folder.files, Len(folder.files)))
             long  == Eager(FilterSeq(candidates,
                         {i \in 1..Len(candidates) : Positive(candidates[i].long_score)}))
             short == Eager(FilterSeq(candidates,
                         {i \in 1..Len(candidates) : Positive(candidates[i].short_score)}))
         IN  [long_candidates |->
                  SortedByCount(long, [i \in 1..Len(long) |-> long[i].long_score]),
              short_candidates |->
                  SortedByCount(short, [i \in 1..Len(short) |-> short[i].short_score])]

Head5(s) == SubSeq(s, 1, IF Len(s) < 5 THEN Len(s) ELSE 5)

\* lines 91-115: the lines printed under each of the two headings
PrintSummary(long_candidates, short_candidates) ==
    LET top5 == Head5(long_candidates)
        bottom5 == Head5(short_candidates)
    IN  [long |-> IF long_candidates = <<>> THEN <<[kind |-> "none_found"]>>
                  ELSE [i \in 1..Len(top5) |->
                           [kind |-> "candidate", place |-> i, ticker |-> top5[i].ticker,
                            score |-> top5[i].long_score, reasons |-> top5[i].long_reasons]],
         short |-> IF short_candidates = <<>> THEN <<[kind |-> "none_found"]>>
                   ELSE [i \in 1..Len(bottom5) |->
                            [kind |-> "candidate", place |-> i, ticker |-> bottom5[i].ticker,
                             score |-> bottom5[i].short_score,
                             reasons |-> bottom5[i].short_reasons]]]

\* lines 117-122
RunRanking ==
    /\ pc = "ranking"
    /\ LET ranked == RankReports(fs)
       IN  batch' = [long_candidates |-> ranked.long_candidates,
                     short_candidates |-> ranked.short_candidates,
                     printed |-> PrintSummary(ranked.long_candidates, ranked.short_candidates)]
    /\ pc' = "ranked"
    /\ UNCHANGED <<raw, df, result, report, large_trades, text, scorer, calls, fs, scan, gui, main>>

ReportTexts ==
    {[case |-> "title", words |-> <<"bulls">>],
     [case |-> "title", words |-> <<"sell_culm", "NL", "bears">>],
     [case |-> "title", words |-> <<"buy_culm">>],
     Unreadable}

ReportFiles ==
    {[suffix |-> ".txt", text |-> t] : t \in ReportTexts}
    \cup {[suffix |-> ".json", text |-> [case |-> "title", words |-> <<"bulls">>]]}

InitRanking ==
    /\ pc = "ranking"
    /\ \/ fs = [isdir |-> FALSE, files |-> <<>>]
       \/ \E fl \in SeqsUpTo(ReportFiles, MaxReports) :
             fs = [isdir |-> TRUE,
                   files |-> [i \in 1..Len(fl) |->
                                 [ticker |-> i, suffix |-> fl[i].suffix, text |-> fl[i].text]]]
    /\ batch = None
    /\ scan = None
    /\ gui = None
    /\ main = None
    /\ raw = [has_value |-> FALSE, rows |-> <<>>]
    /\ df = <<>>
    /\ result = NoResult
    /\ report = None
    /\ large_trades = <<>>
    /\ text = [case |-> "lower", words |-> <<>>]
    /\ scorer = NoScorer
    /\ calls = 0

NextRanking == RunRanking

SpecRanking == InitRanking /\ [][NextRanking]_vars

\* the scores of the files as listed (a file's ticker is its position)
ScoresOf(files) == [i \in 1..Len(files) |-> AnalyzeOf(NoScorer, files[i].text)]

Scored(i) == fs.files[i].suffix = ".txt" /\ fs.files[i].text # Unreadable

\* ranking is the tickers of one side's ranking, shown the tickers of the
\* lines printed for it
RankedRight(ranking, shown, score) ==
    /\ \A i \in 1..Len(fs.files) :
          (\E k \in 1..Len(ranking) : ranking[k] = i) <=> (Scored(i) /\ score[i] > 0)
    /\ \A k, l \in 1..Len(ranking) : k # l => ranking[k] # ranking[l]
    /\ \A k \in 1..(Len(ranking) - 1) :
          \/ score[ranking[k]] > score[ranking[k + 1]]
          \/ /\ score[ranking[k]] = score[ranking[k + 1]]
             /\ ranking[k] < ranking[k + 1]
    /\ Len(shown) <= 5
    /\ shown = SubSeq(ranking, 1, Len(shown))
    /\ Len(ranking) <= 5 => shown = ranking

\* C12: the long ranking holds exactly the candidates of long score above 0,
\* by descending long score, the short ranking the same for the short score,
\* candidates of equal score in the order they were met, and what is printed of
\* each ranking is its first 5 entries at most.
C12_RankingsSortedTop5 ==
    pc = "ranked" =>
        \A scores \in {ScoresOf(fs.files)} :
        LET tickers(r) == [k \in 1..Len(r) |-> r[k].ticker]
            shown(p) == IF p = <<[kind |-> "none_found"]>> THEN <<>> ELSE tickers(p)
            long_score == [i \in 1..Len(scores) |-> scores[i].long_score]
            short_score == [i \in 1..Len(scores) |-> scores[i].short_score]
        IN  /\ RankedRight(tickers(batch.long_candidates), shown(batch.printed.long),
                           long_score)
            /\ RankedRight(tickers(batch.short_candidates), shown(batch.printed.short),
                           short_score)
            /\ \A k \in 1..Len(batch.long_candidates) :
                  batch.long_candidates[k].long_score
                      = long_score[batch.long_candidates[k].ticker]
            /\ \A k \in 1..Len(batch.short_candidates) :
                  batch.short_candidates[k].short_score
                      = short_score[batch.short_candidates[k].ticker]

\* six candidates for the long side, a later one ahead of an earlier one, two
\* of equal score, the sixth not printed
C12_Witness ==
    /\ pc = "ranked"
    /\ Len(batch.long_candidates) = 6
    /\ Len(batch.printed.long) = 5
    /\ batch.long_candidates[1].ticker > batch.long_candidates[2].ticker
    /\ batch.long_candidates[2].long_score = batch.long_candidates[3].long_score

----------------------------------------------------------------------------
(* generate_full_report on the report of a session.  Most of the session   *)
(* traded at 10, so the POC bin closes at 10; its large trades are taken   *)
(* from buys at 11, buys at 9 and sells at 9, one a minute; there is at    *)
(* least one, the trade of the highest value.                              *)

SessionProfile ==
    GetVolumeProfile(<<[PRICE |-> Num(9), QUANTITY |-> Num(1)],
                       [PRICE |-> Num(10), QUANTITY |-> Num(50)],
                       [PRICE |-> Num(11), QUANTITY |-> Num(1)]>>, DefaultBins)

SessionTrades ==
    {[PRICE |-> 11, QUANTITY |-> 2, BUYSELL |-> "B"],
     [PRICE |-> 9, QUANTITY |-> 2, BUYSELL |-> "B"],
     [PRICE |-> 9, QUANTITY |-> 3, BUYSELL |-> "S"]}

\* what run_full_analysis reports of such a session whose large trades are s
SessionReport(s) ==
    [ticker        |-> "SECID",
     data_period   |-> [start |-> Num(36000), end |-> Num(36000 + 60 * (MaxLarge + 1))],
     summary_stats |->
        [total_trades |-> 140, total_volume |-> 52, buy_volume |-> 28, sell_volume |-> 24,
         delta        |-> 4,
         poc          |-> SessionProfile.poc_level,
         final_vwap   |-> Ratio(10, 1)],
     order_flow_data |->
        <<[TRADETIME |-> 36000, delta |-> 10, cumulative_delta |-> 10],
          [TRADETIME |-> 36060, delta |-> -6, cumulative_delta |-> 4]>>,
     volume_profile  |-> SessionProfile.volume_profile,
     large_trades    |->
        [i \in 1..Len(s) |->
            [no |-> i, TRADETIME |-> 36000 + 60 * i, PRICE |-> s[i].PRICE,
             QUANTITY |-> s[i].QUANTITY, VALUE |-> s[i].PRICE * s[i].QUANTITY,
             BUYSELL |-> s[i].BUYSELL]],
     hourly_stats    |->
        <<[hour |-> 10, direction |-> "Pokupateli", delta |-> 4, big_trades |-> Len(s),
           buy_vol |-> 28, sell_vol |-> 24]>>]

\* ReportGenerator.__init__ on the report of no trades or of a session
InitReport ==
    /\ pc = "analysed"
    /\ \/ report = RunFullAnalysisOf(<<>>)
       \/ \E s \in SeqsUpTo(SessionTrades, MaxLarge) : s # <<>> /\ report = SessionReport(s)
    /\ raw = [has_value |-> FALSE, rows |-> <<>>]
    /\ df = <<>>
    /\ result = NoResult
    /\ large_trades = <<>>
    /\ text = [case |-> "lower", words |-> <<>>]
    /\ scorer = NoScorer
    /\ calls = 0
    /\ fs = <<>>
    /\ batch = None
    /\ scan = None
    /\ gui = None
    /\ main = None

NextReport == GenerateFullReport

SpecReport == InitReport /\ [][NextReport]_vars

Reported == pc = "reported" /\ result.op = "generate_full_report"

\* the numbers of the section headers, in the order they stand in the text
HeaderNumbers(parts) ==
    LET at == FilterSeq(parts, {i \in 1..Len(parts) : parts[i].kind = "header"})
    IN  [i \in 1..Len(at) |-> at[i].n]

IsFakeBreak(part) == part.kind = "risk" /\ part.note \in {"fake_break_up", "fake_break_down"}

\* the place of a part in the order the text has: 0 for what heads the text,
\* 10n for header n, more for what stands in section n
PlaceWritten(part) ==
    CASE part.kind \in {"title", "period"} -> 0
      [] part.kind = "header" -> 10 * part.n
      [] part.kind = "sentiment" -> 11
      [] part.kind = "price_vs_vwap" -> 12
      [] part.kind = "dynamics" -> 21
      [] part.kind = "key_level" -> 31
      [] part.kind = "trade_levels" -> 41
      [] part.kind = "top_trades" -> 51
      [] part.kind = "culmination" -> 52
      [] part.kind = "top50" -> 61
      [] part.kind = "algo_signal" -> 71
      [] part.kind = "risk" -> IF IsFakeBreak(part) THEN 82 ELSE 81
      [] part.kind \in {"conclusion", "conclusion_levels", "conclusion_warning"} -> 91
      [] part.kind \in {"hourly_header", "hourly"} -> 99

\* the place of a block in the order the design lists the blocks, 0 for a
\* part the list does not name
PlaceListed(part) ==
    CASE part.kind = "sentiment" -> 1
      [] part.kind = "price_vs_vwap" -> 2
      [] part.kind = "dynamics" -> 3
      [] part.kind = "key_level" -> 4
      [] part.kind = "trade_levels" -> 5
      [] part.kind = "culmination" -> 6
      [] IsFakeBreak(part) -> 7
      [] part.kind \in {"top_trades", "top50"} -> 8
      [] part.kind = "algo_signal" -> 9
      [] part.kind \in {"hourly_header", "hourly"} -> 10
      [] OTHER -> 0

NineHeaders(parts) == HeaderNumbers(parts) = <<1, 2, 3, 4, 5, 6, 7, 8, 9>>

\* C13 as the code has it: the text has the nine section headers 1 to 9, each
\* once and ascending, whichever optional blocks it has, and its content stands
\* in this order: sentiment, price against VWAP, session dynamics, key levels,
\* weakness levels, top trades, culmination, top-50 tally, signals, risks with
\* the fake breakout last among them, conclusions, and the hourly lines last.
C13_NineHeadersContentAsWritten ==
    Reported =>
        LET parts == result.value
        IN  /\ NineHeaders(parts)
            /\ \A i, j \in 1..Len(parts) :
                  i < j => PlaceWritten(parts[i]) <= PlaceWritten(parts[j])
            /\ \A n \in 1..9 : \E i \in 1..Len(parts) :
                  PlaceWritten(parts[i]) > 10 * n /\ PlaceWritten(parts[i]) < 10 * n + 10

\* C13 as stated: nine headers 1 to 9, and the content in the order sentiment,
\* price against VWAP, session dynamics, key levels, weakness levels,
\* culmination, fake breakout, top trades and top-50 tally, signals, hourly
\* lines.
C13_NineHeadersContentAsListed ==
    Reported =>
        LET parts == result.value
        IN  /\ NineHeaders(parts)
            /\ \A i, j \in 1..Len(parts) :
                  (i < j /\ PlaceListed(parts[i]) > 0 /\ PlaceListed(parts[j]) > 0)
                      => PlaceListed(parts[i]) <= PlaceListed(parts[j])

\* a text with the culmination block, the fake-breakout line and hourly lines
C13_Witness ==
    /\ Reported
    /\ \E i, j, k \in 1..Len(result.value) :
          /\ result.value[i].kind = "culmination"
          /\ IsFakeBreak(result.value[j])
          /\ result.value[k].kind = "hourly"

----------------------------------------------------------------------------
(* The order of the cleaned frame *)

\* C14: after _preprocess_data the trades stand in ascending TRADETIME, and
\* trades of equal TRADETIME stand in the order they had in the raw frame.
C14_SortedAscendingStable ==
    pc = "ready" =>
        \A i, j \in 1..Len(df) :
            i < j => \/ df[i].TRADETIME.v < df[j].TRADETIME.v
                     \/ /\ df[i].TRADETIME.v = df[j].TRADETIME.v
                        /\ df[i].no < df[j].no

\* a cleaned frame in ascending TRADETIME that holds two trades of one
\* TRADETIME
C14_Witness ==
    /\ pc = "ready"
    /\ \A i, j \in 1..Len(df) : i < j => df[i].TRADETIME.v <= df[j].TRADETIME.v
    /\ \E i, j \in 1..Len(df) : i # j /\ df[i].TRADETIME.v = df[j].TRADETIME.v

----------------------------------------------------------------------------
(* get_vwap called on its own.  The raw rows are trades at 10 and, five    *)
(* seconds later, at 11, of quantity 1, 0 or -1, so that the cumulative    *)
(* quantity is zero at the start of a frame or returns to zero inside it.  *)

CallVwap ==
    /\ pc = "ready"
    /\ result.op = "none"
    /\ result' = [op |-> "get_vwap", arg |-> 0, value |-> GetVwap(df)]
    /\ UNCHANGED <<pc, raw, df, report, large_trades, text, scorer, calls, fs, batch, scan, gui, main>>

VwapRows ==
    RawRows({Num(0)}, {Num(10)}, {Num(-1), Num(0), Num(1)}, {Str}, {"B"})
    \cup RawRows({Num(5)}, {Num(11)}, {Num(-1), Num(0), Num(1)}, {Str}, {"B"})

InitVwap ==
    /\ pc = "new"
    /\ raw \in [has_value : {FALSE}, rows : SeqsUpTo(VwapRows, MaxRaw)]
    /\ df = <<>>
    /\ IdleRest

NextVwap == Construct \/ CallVwap

SpecVwap == InitVwap /\ [][NextVwap]_vars

VwapCalled == result.op = "get_vwap"

\* the sum of quantity and of price times quantity over the first i trades
QuantityUpTo(i) == SumSeq([j \in 1..i |-> df[j].QUANTITY.v])
TurnoverUpTo(i) == SumSeq([j \in 1..i |-> df[j].PRICE.v * df[j].QUANTITY.v])

\* C15: get_vwap returns one value per trade; the i-th is the sum of price
\* times quantity over the first i trades divided by the sum of their
\* quantities, and exactly 0 where that sum of quantities is 0; the call
\* returns on every cleaned frame.
C15_VwapIsRunningRatioOrZero ==
    pc = "ready" =>
        /\ ENABLED CallVwap \/ VwapCalled
        /\ VwapCalled =>
              /\ Len(result.value) = Len(df)
              /\ \A i \in 1..Len(df) :
                    LET v == result.value[i].vwap
                    IN  /\ v.den # 0
                        /\ IF QuantityUpTo(i) # 0
                           THEN v.num * QuantityUpTo(i) = TurnoverUpTo(i) * v.den
                           ELSE v.num = 0

\* a frame of three trades whose cumulative quantity is not zero after the
\* first and zero after the second
C15_Witness ==
    /\ VwapCalled
    /\ Len(df) = 3
    /\ QuantityUpTo(1) # 0
    /\ QuantityUpTo(2) = 0
    /\ QuantityUpTo(3) # 0

----------------------------------------------------------------------------
(* Batch runs: step_1_collect_data, step_2_run_analysis and                *)
(* step_3_generate_reports of run_analysis.py, AnalysisWorker.run and      *)
(* MainWindow.run_analysis of main_gui.py.                                 *)
(*                                                                         *)
(* A batch is the runner, its instruments in the order of the loop, the    *)
(* position of the next one, and the log.  What befalls an instrument is   *)
(* part of the input: "analysis" is an exception while its data is loaded, *)
(* analysed, plotted or narrated, "serialize" a TypeError raised by        *)
(* json_serializer for a value inside the report, "open" an OSError of     *)
(* open(..., 'w'), "empty" a trades file without trades.  fs[k] is the     *)
(* output artifact of instrument k:                                        *)
(*   "absent"      no file                                                 *)
(*   "previous"    the complete file of an earlier run                     *)
(*   "complete"    the whole output of a complete run                      *)
(*   "truncated"   a file that ends in the middle of its content           *)
(*   "incomplete"  the whole of what a run that failed midway had got      *)

Runners == {"step_1_collect_data", "step_2_run_analysis", "step_3_generate_reports",
            "AnalysisWorker.run", "MainWindow.run_analysis"}

\* the answers of the exchange to the successive page requests for one
\* instrument: a page of page_size trades, a shorter page, a page without
\* trades, or an exception of the request
PageScripts ==
    {<<"short">>, <<"full", "short">>, <<"full", "empty">>, <<"empty">>,
     <<"error">>, <<"full", "error">>}

RECURSIVE GetTradesData(_, _, _)
\* moexparser2.py lines 66-96: the request for page i when got pages are
\* collected; the number of pages returned (0 for None) and whether the loop
\* ended on an exception
GetTradesData(pages, i, got) ==
    CASE pages[i] = "error" -> [pages |-> got, failed |-> TRUE]
      [] pages[i] = "empty" -> [pages |-> got, failed |-> FALSE]
      [] pages[i] = "short" -> [pages |-> got + 1, failed |-> FALSE]
      [] pages[i] = "full"  -> GetTradesData(pages, i + 1, got + 1)

\* moexparser2.py lines 98-116: the file after save_data, and what it logs
SaveData(data, fault, file) ==
    IF fault = "open" THEN [file |-> file, event |-> "error"]
    ELSE [file |-> IF data.failed THEN "incomplete" ELSE "complete", event |-> "saved"]

Logged(k, event) == Append(batch.log, [instrument |-> k, event |-> event])

\* the loop goes on to the next instrument, or ends after the last
Continue(log) ==
    batch' = [batch EXCEPT !.next = @ + 1, !.log = log,
                           !.running = batch.next < Len(batch.items)]

\* the loop is left by an exception caught outside it
Abort(log) == batch' = [batch EXCEPT !.log = log, !.running = FALSE]

Current == batch.items[batch.next]

IdleBatch ==
    UNCHANGED <<pc, raw, df, result, report, large_trades, text, scorer, calls, scan, gui, main>>

\* run_analysis.py lines 53-61 (and 74-79): one instrument of the loop
Step1CollectData ==
    /\ pc = "batch" /\ batch.running /\ batch.runner = "step_1_collect_data"
    /\ LET k == batch.next
           data == GetTradesData(Current.pages, 1, 0)
       IN  IF data.pages = 0
           THEN /\ fs' = fs
                /\ Continue(IF data.failed THEN Logged(k, "error") ELSE batch.log)
           ELSE LET saved == SaveData(data, Current.fault, fs[k])
                    log == IF data.failed THEN Logged(k, "error") ELSE batch.log
                IN  /\ fs' = [fs EXCEPT ![k] = saved.file]
                    /\ Continue(Append(log, [instrument |-> k, event |-> saved.event]))
    /\ IdleBatch

\* run_analysis.py lines 107-131: one instrument of the loop
Step2RunAnalysis ==
    /\ pc = "batch" /\ batch.running /\ batch.runner = "step_2_run_analysis"
    /\ LET k == batch.next
       IN  CASE Current.fault = "empty" ->
                    fs' = fs /\ Continue(Logged(k, "skipped"))
             [] Current.fault \in {"analysis", "open"} ->
                    fs' = fs /\ Continue(Logged(k, "error"))
             [] Current.fault = "serialize" ->
                    \* open(..., 'w') has emptied the file, json.dump has written
                    \* what comes before the value it cannot serialize
                    fs' = [fs EXCEPT ![k] = "truncated"] /\ Continue(Logged(k, "error"))
             [] Current.fault = "none" ->
                    fs' = [fs EXCEPT ![k] = "complete"] /\ Continue(Logged(k, "saved"))
    /\ IdleBatch

\* run_analysis.py lines 159-181: one instrument of the loop
Step3GenerateReports ==
    /\ pc = "batch" /\ batch.running /\ batch.runner = "step_3_generate_reports"
    /\ LET k == batch.next
       IN  IF Current.fault \in {"analysis", "open"}
           THEN fs' = fs /\ Continue(Logged(k, "error"))
           ELSE fs' = [fs EXCEPT ![k] = "complete"] /\ Continue(Logged(k, "saved"))
    /\ IdleBatch

\* lines 96-108 and 370-384 of main_gui.py: json.dumps builds the whole text
\* before the file is opened; the try stands around the loop, and the error
\* emitted for the instrument that failed is the last thing the run does
GuiAnalyse ==
    LET k == batch.next
    IN  IF Current.fault \in {"analysis", "serialize", "open"}
        THEN fs' = fs /\ Abort(Logged(k, "error"))
        ELSE fs' = [fs EXCEPT ![k] = "complete"] /\ Continue(Logged(k, "saved"))

\* main_gui.py lines 90-108: one instrument of the loop
AnalysisWorkerRun ==
    /\ pc = "batch" /\ batch.running /\ batch.runner = "AnalysisWorker.run"
    /\ GuiAnalyse
    /\ IdleBatch

\* main_gui.py lines 366-386: one instrument of the loop
MainWindowRunAnalysis ==
    /\ pc = "batch" /\ batch.running /\ batch.runner = "MainWindow.run_analysis"
    /\ GuiAnalyse
    /\ IdleBatch

\* what can befall an instrument in a runner
ItemsOf(runner) ==
    CASE runner = "step_1_collect_data" ->
             [pages : PageScripts, fault : {"none", "open"}]
      [] runner = "step_2_run_analysis" ->
             [pages : {<<>>}, fault : {"none", "empty", "analysis", "serialize", "open"}]
      [] runner = "step_3_generate_reports" ->
             [pages : {<<>>}, fault : {"none", "analysis", "open"}]
      [] OTHER ->
             [pages : {<<>>}, fault : {"none", "analysis", "serialize", "open"}]

\* a batch of at least one instrument (without any, each runner returns
\* before its loop); every artifact absent or left by an earlier run
InitBatch ==
    /\ pc = "batch"
    /\ \E runner \in Runners : \E items \in SeqsUpTo(ItemsOf(runner), MaxBatch) :
          /\ items # <<>>
          /\ batch = [runner |-> runner, items |-> items, next |-> 1, log |-> <<>>,
                      running |-> TRUE]
          /\ fs \in [1..Len(items) -> {"absent", "previous"}]
    /\ raw = [has_value |-> FALSE, rows |-> <<>>]
    /\ df = <<>>
    /\ result = NoResult
    /\ report = None
    /\ large_trades = <<>>
    /\ text = [case |-> "lower", words |-> <<>>]
    /\ scorer = NoScorer
    /\ calls = 0
    /\ scan = None
    /\ gui = None
    /\ main = None

NextBatch ==
    \/ Step1CollectData
    \/ Step2RunAnalysis
    \/ Step3GenerateReports
    \/ AnalysisWorkerRun
    \/ MainWindowRunAnalysis

SpecBatch == InitBatch /\ [][NextBatch]_vars

BatchOver == pc = "batch" /\ ~batch.running

Failed(k) == batch.items[k].fault \in {"analysis", "serialize", "open"}

EventsOf(k, event) ==
    {i \in 1..Len(batch.log) : batch.log[i].instrument = k /\ batch.log[i].event = event}

\* C16: when a run of step_2_run_analysis, step_3_generate_reports,
\* AnalysisWorker.run or MainWindow.run_analysis is over, every instrument of
\* the batch was processed: an instrument that failed has one error reported
\* for it, and every other one was saved (or skipped as empty) without an
\* error.
C16_FailureStaysWithItsInstrument ==
    (BatchOver /\ batch.runner # "step_1_collect_data") =>
        \A k \in 1..Len(batch.items) :
            IF Failed(k)
            THEN Cardinality(EventsOf(k, "error")) = 1
            ELSE EventsOf(k, "error") = {}
                 /\ Cardinality(EventsOf(k, "saved") \cup EventsOf(k, "skipped")) = 1

\* a finished batch whose first instrument failed and that has a second one
C16_Witness ==
    /\ BatchOver
    /\ batch.runner # "step_1_collect_data"
    /\ Len(batch.items) >= 2
    /\ Failed(1)
    /\ ~Failed(2)

\* C17: in every state of a batch run every output artifact is absent, the
\* complete file of an earlier run, or the whole output of a complete run of
\* its instrument.
C17_ArtifactsAllOrNothing ==
    pc = "batch" =>
        \A k \in 1..Len(fs) : fs[k] \in {"absent", "previous", "complete"}

\* a run has failed midway for an instrument that had a file of an earlier run
C17_Witness ==
    /\ pc = "batch"
    /\ \E k \in 1..Len(batch.items) :
          /\ k < batch.next
          /\ \/ batch.items[k].fault = "serialize"
             \/ batch.items[k].pages = <<"full", "error">>
          /\ fs[k] # "complete"

----------------------------------------------------------------------------
(* The time-cluster scan of detect_algo_signals, one iteration of its      *)
(* outer loop at a time, on large-trade lists built from gaps of 1 or 3    *)
(* seconds.  scan.i is the start index the loop comes to next.             *)

\* lines 73-98: one iteration of the for loop; after the last the loop is left
ClusterStep ==
    /\ pc = "scanning"
    /\ scan.i <= Len(large_trades)
    /\ scan' = [ClusterIteration(large_trades, scan, scan.i) EXCEPT !.i = @ + 1]
    /\ pc' = IF scan.i = Len(large_trades) THEN "scanned" ELSE "scanning"
    /\ UNCHANGED <<raw, df, result, report, large_trades, text, scorer, calls, fs, batch, gui, main>>

\* lines 73-74, reached with a list that is not empty (line 24)
InitScan ==
    /\ pc = "scanning"
    /\ large_trades \in {TradesOfGaps(g) : g \in SeqsUpTo(GapSecs, MaxScan)}
    /\ scan = [i |-> 1, cluster_details |-> <<>>, processed_indices |-> {},
               cluster_indices |-> <<>>]
    /\ raw = [has_value |-> FALSE, rows |-> <<>>]
    /\ df = <<>>
    /\ result = NoResult
    /\ report = None
    /\ text = [case |-> "lower", words |-> <<>>]
    /\ scorer = NoScorer
    /\ calls = 0
    /\ fs = <<>>
    /\ batch = None
    /\ gui = None
    /\ main = None

NextScan == ClusterStep

SpecScan == InitScan /\ [][NextScan]_vars

\* the loop is a for over range(len(large_trades)): each iteration is followed
\* by the next until the range is used up
SpecScanFair == SpecScan /\ WF_vars(ClusterStep)

Scanning == pc \in {"scanning", "scanned"}

TimeOf(j) == large_trades[j].TRADETIME

\* C18: every cluster the scan retains is a run of consecutive large trades
\* i..k of at least 3 trades, each at most 5 seconds after trade i, and trade
\* k+1, if there is one, is more than 5 seconds after trade i; its details give
\* its size and the times of trades i and k, which are at most 5 seconds apart.
C18_ClustersContiguousWithinFiveMaximal ==
    Scanning =>
        /\ Len(scan.cluster_details) = Len(scan.cluster_indices)
        /\ \A c \in 1..Len(scan.cluster_indices) :
              LET members == scan.cluster_indices[c]
                  details == scan.cluster_details[c]
                  i == SetMin(members)
                  k == SetMax(members)
              IN  /\ members = i..k
                  /\ k - i + 1 >= 3
                  /\ details.count = k - i + 1
                  /\ \A j \in i..k : TimeOf(j) - TimeOf(i) <= 5
                  /\ k < Len(large_trades) => TimeOf(k + 1) - TimeOf(i) > 5
                  /\ details.start_time = TimeOf(i)
                  /\ details.end_time = TimeOf(k)
                  /\ details.end_time - details.start_time \in 0..5

\* a finished scan that retained a cluster whose last trade is exactly 5
\* seconds after its first and one that ends with the list
C18_Witness ==
    /\ pc = "scanned"
    /\ \E c, d \in 1..Len(scan.cluster_details) :
          /\ c # d
          /\ scan.cluster_details[c].end_time - scan.cluster_details[c].start_time = 5
          /\ SetMax(scan.cluster_indices[d]) = Len(large_trades)

ClustersDisjoint ==
    Scanning =>
        /\ \A c, d \in 1..Len(scan.cluster_indices) :
              c # d => scan.cluster_indices[c] \cap scan.cluster_indices[d] = {}
        /\ scan.processed_indices = UNION Range(scan.cluster_indices)
        /\ SumSeq([c \in 1..Len(scan.cluster_details) |-> scan.cluster_details[c].count])
              <= Len(large_trades)
        /\ pc = "scanned" =>
              /\ scan.cluster_details
                    = ClusterScan(large_trades, Len(large_trades)).cluster_details
              /\ \A s \in Range(ClusterSignal(large_trades)) :
                    s.total_clustered_trades <= Len(large_trades)

\* an iteration takes the start index the loop has come to, goes on to the
\* next, and retains a cluster only from a start index no cluster holds and
\* only of trades no cluster holds
EachStartOnce ==
    /\ scan'.i = scan.i + 1
    /\ scan.i \in 1..Len(large_trades)
    /\ \A c \in 1..Len(scan.cluster_indices) : scan'.cluster_indices[c] = scan.cluster_indices[c]
    /\ Len(scan'.cluster_indices) \in {Len(scan.cluster_indices), Len(scan.cluster_indices) + 1}
    /\ Len(scan'.cluster_indices) > Len(scan.cluster_indices) =>
          LET new == scan'.cluster_indices[Len(scan'.cluster_indices)]
          IN  /\ scan.i = SetMin(new)
              /\ new \cap scan.processed_indices = {}

\* C19: throughout the scan the retained clusters are pairwise disjoint, no
\* trade of a retained cluster starts a later cluster or is taken into one, the
\* total of clustered trades is at most the number of large trades, every start
\* index is visited once at most, and the scan comes to its end.
C19_ClustersDisjointScanTerminates ==
    /\ []ClustersDisjoint
    /\ [][EachStartOnce]_vars
    /\ <>(pc = "scanned")

\* a finished scan with two retained clusters and a trade in neither
C19_Witness ==
    /\ pc = "scanned"
    /\ Len(scan.cluster_indices) = 2
    /\ scan.processed_indices # 1..Len(large_trades)

----------------------------------------------------------------------------
(* The run the rapid-fire signal reports *)

GapAfter(i) == large_trades[i + 1].TRADETIME - large_trades[i].TRADETIME

\* the gaps a..b are all under 2 seconds and the gaps next to them are not
FastRun(a, b) ==
    /\ a <= b
    /\ \A i \in a..b : GapAfter(i) < 2
    /\ a > 1 => GapAfter(a - 1) >= 2
    /\ b < Len(large_trades) - 1 => GapAfter(b + 1) >= 2

FastRuns ==
    {r \in (1..(Len(large_trades) - 1)) \X (1..(Len(large_trades) - 1)) : FastRun(r[1], r[2])}

LongestFastRun == SetMax({r[2] - r[1] + 1 : r \in FastRuns})

\* C20: the rapid-fire signal is given exactly when more than 10 gaps between
\* consecutive large trades are under 2 seconds; the run it reports is the
\* longest run of such gaps, and the start, the end and the seconds it reports
\* are those of a run of that length.
C20_RapidFireReportsLongestRun ==
    (Detected /\ large_trades # <<>>) =>
        LET fast == {i \in 1..(Len(large_trades) - 1) : GapAfter(i) < 2}
        IN  /\ (SignalsOf("rapid_fire") # {}) <=> (Cardinality(fast) > 10)
            /\ \A s \in SignalsOf("rapid_fire") :
                  LET info == result.value[s].time_info
                  IN  /\ Len(info) = 1
                      /\ info[1].count = LongestFastRun
                      /\ \E r \in FastRuns :
                            /\ r[2] - r[1] + 1 = info[1].count
                            /\ info[1].start_time = large_trades[r[1]].TRADETIME
                            /\ info[1].end_time = large_trades[r[2] + 1].TRADETIME
                            /\ info[1].seconds = info[1].end_time - info[1].start_time

\* the signal is given for a list whose longest run of quick gaps is followed
\* by a slow gap and a shorter run
C20_Witness ==
    /\ Detected
    /\ SignalsOf("rapid_fire") # {}
    /\ \E r, q \in FastRuns : r[2] < q[1] /\ r[2] - r[1] > q[2] - q[1]

----------------------------------------------------------------------------
(* Which trades _find_weakness_levels takes for weakness levels *)

\* the trades at or above the 90th percentile of quantity
TopByQuantity(lt) ==
    LET threshold == WeaknessThreshold([i \in 1..Len(lt) |-> lt[i].QUANTITY])
    IN  FilterSeq(lt, {i \in 1..Len(lt) : lt[i].QUANTITY >= threshold})

\* the prices of the next 5 trades after position i
NextFivePrices(filtered, i) ==
    {filtered[j].PRICE : j \in (i + 1)..(IF i + 5 < Len(filtered) THEN i + 5 ELSE Len(filtered))}

\* a trade followed by another is a candidate when none of the next 5 prices
\* went further in its direction; an equal price is no further
NotConfirmed(filtered, i) ==
    /\ NextFivePrices(filtered, i) # {}
    /\ \/ filtered[i].BUYSELL = "B" /\ \A p \in NextFivePrices(filtered, i) : ~(p > filtered[i].PRICE)
       \/ filtered[i].BUYSELL = "S" /\ \A p \in NextFivePrices(filtered, i) : ~(p < filtered[i].PRICE)

LevelOf(t) ==
    [price |-> t.PRICE,
     label |-> IF t.BUYSELL = "B" THEN "Slabost pokupateley" ELSE "Slabost prodavtsov",
     time |-> t.TRADETIME, qty |-> t.QUANTITY]

\* C21: of the large trades in the top 10% by quantity, a buy is a candidate
\* for buyers' weakness exactly when none of the next 5 prices is above its
\* price, a sell for sellers' weakness exactly when none is below (an equal
\* price does not count against it); the levels returned are the candidates
\* left by the proximity dedup in order of quantity, 3 at most for each side.
C21_WeaknessWhenNotExceeded ==
    (WeaknessFound /\ large_trades # <<>>) =>
        LET filtered == TopByQuantity(large_trades)
            picked == FilterSeq(filtered, {i \in 1..Len(filtered) : NotConfirmed(filtered, i)})
            candidates == [i \in 1..Len(picked) |-> LevelOf(picked[i])]
            sorted == SortedByCount(candidates, [i \in 1..Len(candidates) |-> candidates[i].qty])
            grouped == Grouped(sorted, Len(sorted))
            side(l) == FilterSeq(grouped, {k \in 1..Len(grouped) : grouped[k].label = l})
        IN  result.value = Head3(side("Slabost pokupateley")) \o Head3(side("Slabost prodavtsov"))

\* two buys of one quantity at one price: the price after the first buy is not
\* above it, and no level is returned
C21_Witness ==
    /\ WeaknessFound
    /\ Len(large_trades) = 2
    /\ \A i \in 1..2 : large_trades[i].BUYSELL = "B"
    /\ large_trades[1].PRICE = large_trades[2].PRICE
    /\ large_trades[1].QUANTITY = large_trades[2].QUANTITY
    /\ result.value = <<>>

----------------------------------------------------------------------------
(* The notes on a turn of the cumulative delta.  The reports are those of  *)
(* a session with one large trade whose order flow has these cumulative    *)
(* deltas, a minute apart; 7 is 30% below 10 and -7 is 30% above -10.      *)

FlowDeltas == {-10, -7, -6, 0, 6, 7, 10}

DynamicsReport(deltas) ==
    [SessionReport(<<[PRICE |-> 11, QUANTITY |-> 2, BUYSELL |-> "B"]>>) EXCEPT
        !.order_flow_data =
            [i \in 1..Len(deltas) |->
                [TRADETIME |-> 36000 + 60 * (i - 1),
                 delta |-> deltas[i] - (IF i = 1 THEN 0 ELSE deltas[i - 1]),
                 cumulative_delta |-> deltas[i]]],
        !.summary_stats.delta = deltas[Len(deltas)]]

InitDynamics ==
    /\ pc = "analysed"
    /\ \E deltas \in SeqsUpTo(FlowDeltas, MaxFlow) :
          deltas # <<>> /\ report = DynamicsReport(deltas)
    /\ raw = [has_value |-> FALSE, rows |-> <<>>]
    /\ df = <<>>
    /\ result = NoResult
    /\ large_trades = <<>>
    /\ text = [case |-> "lower", words |-> <<>>]
    /\ scorer = NoScorer
    /\ calls = 0
    /\ fs = <<>>
    /\ batch = None
    /\ scan = None
    /\ gui = None
    /\ main = None

NextDynamics == GenerateFullReport

SpecDynamics == InitDynamics /\ [][NextDynamics]_vars

CumulativeDeltas == {report.order_flow_data[i].cumulative_delta : i \in 1..Len(report.order_flow_data)}
SessionPeak == SetMax(CumulativeDeltas)
SessionTrough == SetMin(CumulativeDeltas)
FinalDelta == report.order_flow_data[Len(report.order_flow_data)].cumulative_delta

HasNote(kind, note) ==
    \E i \in 1..Len(result.value) : result.value[i].kind = kind /\ result.value[i].note = note

\* C22 as the code has it: the text has the distribution note (in the session
\* dynamics and among the risks) exactly when the session peak of the
\* cumulative delta is positive and the final cumulative delta is more than 30%
\* of the peak below it, and the absorption note exactly when the trough is
\* negative and the final cumulative delta is more than 30% of |trough| above
\* it; a fall or rise of exactly 30% gives no note, an extreme of zero gives no
\* note, and the text is produced.
C22_TurnNotesAboveThirtyPercent ==
    (pc \in {"reported", "report_raised"} /\ report.order_flow_data # <<>>) =>
        /\ Reported
        /\ LET fell == SessionPeak > 0 /\ 10 * (SessionPeak - FinalDelta) > 3 * SessionPeak
               rose == SessionTrough < 0
                       /\ 10 * (FinalDelta - SessionTrough) > 3 * Abs(SessionTrough)
           IN  /\ HasNote("dynamics", "unloading") <=> fell
               /\ HasNote("risk", "unload") <=> fell
               /\ HasNote("dynamics", "buyback") <=> rose
               /\ HasNote("risk", "buyback") <=> rose

\* C22 as stated: the notes are given from a fall or rise of 30%, the boundary
\* included.
C22_TurnNotesFromThirtyPercent ==
    (pc \in {"reported", "report_raised"} /\ report.order_flow_data # <<>>) =>
        /\ Reported
        /\ LET fell == SessionPeak > 0 /\ 10 * (SessionPeak - FinalDelta) >= 3 * SessionPeak
               rose == SessionTrough < 0
                       /\ 10 * (FinalDelta - SessionTrough) >= 3 * Abs(SessionTrough)
           IN  /\ HasNote("dynamics", "unloading") <=> fell
               /\ HasNote("risk", "unload") <=> fell
               /\ HasNote("dynamics", "buyback") <=> rose
               /\ HasNote("risk", "buyback") <=> rose

\* a text for a session whose cumulative delta ends exactly 30% below its peak
C22_Witness ==
    /\ Reported
    /\ report.order_flow_data # <<>>
    /\ SessionPeak > 0
    /\ 10 * (SessionPeak - FinalDelta) = 3 * SessionPeak
    /\ ~HasNote("dynamics", "unloading")

----------------------------------------------------------------------------
(* _find_culmination called on its own, on large-trade lists of buys and   *)
(* sells whose quantities go 2, 3, 1, 2, 3, 1, ... so that either side can  *)
(* have the count without the quantity.                                    *)

CallFindCulmination ==
    /\ pc = "generator"
    /\ result = NoResult
    /\ result' = [op |-> "_find_culmination", arg |-> 0,
                  value |-> FindCulmination([large_trades |-> large_trades])]
    /\ UNCHANGED <<pc, raw, df, report, large_trades, text, scorer, calls, fs, batch, scan, gui, main>>

InitTail ==
    /\ pc = "generator"
    /\ \E s \in SeqsUpTo({"B", "S"}, MaxTail) :
          large_trades = [i \in 1..Len(s) |->
                             [TRADETIME |-> 36000 + 60 * i, PRICE |-> 10,
                              QUANTITY |-> 1 + (i % 3), BUYSELL |-> s[i]]]
    /\ result = NoResult
    /\ IdleAnalyzer

NextTail == CallFindCulmination

SpecTail == InitTail /\ [][NextTail]_vars

CulminationSought == result.op = "_find_culmination"

\* the positions of the last 10 large trades
LastTen == {i \in 1..Len(large_trades) : i > Len(large_trades) - 10}

SideOfLastTen(side) == {i \in LastTen : large_trades[i].BUYSELL = side}

QuantityOfLastTen(side) ==
    SumSeq([i \in 1..Len(large_trades) |->
               IF i \in SideOfLastTen(side) THEN large_trades[i].QUANTITY ELSE 0])

IsCulmination(side, other) ==
    /\ Cardinality(SideOfLastTen(side)) >= 6
    /\ QuantityOfLastTen(side) > QuantityOfLastTen(other)

\* C23: _find_culmination flags a culmination of buys exactly when at least 6
\* of the last 10 large trades are buys and their quantity is above that of
\* the sells among the 10, a culmination of sells in the mirrored case,
\* nothing otherwise, and never both.
C23_CulminationOfLastTen ==
    CulminationSought =>
        /\ Len(result.value) <= 1
        /\ (\E i \in 1..Len(result.value) : result.value[i].side = "buy_culm")
              <=> IsCulmination("B", "S")
        /\ (\E i \in 1..Len(result.value) : result.value[i].side = "sell_culm")
              <=> IsCulmination("S", "B")
        /\ \A i \in 1..Len(result.value) : result.value[i].kind = "culmination"

\* eleven trades, six of them buys with the greater quantity, but only five
\* buys among the last ten: nothing is flagged
C23_Witness ==
    /\ CulminationSought
    /\ Len(large_trades) = 11
    /\ CountOf(large_trades, "B") = 6
    /\ QtyOf(large_trades, "B") > QtyOf(large_trades, "S")
    /\ Cardinality(SideOfLastTen("B")) = 5
    /\ result.value = <<>>

\* six buys among the last ten whose quantity is not above that of the four
\* sells: nothing is flagged
C23_WitnessCountWithoutQuantity ==
    /\ CulminationSought
    /\ Cardinality(SideOfLastTen("B")) = 6
    /\ QuantityOfLastTen("B") <= QuantityOfLastTen("S")

----------------------------------------------------------------------------
(* _find_fake_break called on its own.  The large trades of the report come *)
(* in stretches of 1, 19 or 20 trades at 9, 10 or 11; the POC is the bin    *)
(* that closes at 10 (it opens at 9.96), or a bin that opens below zero, or *)
(* is missing; the final VWAP is 10 or missing.                             *)

StretchLengths == {1, 19, 20}

Stretch == [PRICE : {9, 10, 11}, len : StretchLengths]

RECURSIVE Unfold(_)
Unfold(ss) ==
    IF ss = <<>> THEN <<>>
    ELSE [i \in 1..ss[1].len |-> [PRICE |-> ss[1].PRICE, QUANTITY |-> 2, BUYSELL |-> "B"]]
         \o Unfold(Tail(ss))

\* a session most of which traded at 0: pd.cut opens its lowest bin, the POC,
\* 0.1% of the range below the lowest price, and the text of the POC begins
\* with the minus sign
PennyProfile ==
    GetVolumeProfile(<<[PRICE |-> Num(0), QUANTITY |-> Num(50)],
                       [PRICE |-> Num(1), QUANTITY |-> Num(1)],
                       [PRICE |-> Num(2), QUANTITY |-> Num(1)]>>, DefaultBins)

BreakReport(ss, profile, vwap) ==
    [SessionReport(Unfold(ss)) EXCEPT
        !.summary_stats.poc = profile.poc_level,
        !.summary_stats.final_vwap = vwap,
        !.volume_profile = profile.volume_profile]

CallFindFakeBreak ==
    /\ pc = "generator"
    /\ result = NoResult
    /\ result' = [op |-> "_find_fake_break", arg |-> 0, value |-> FindFakeBreak(report)]
    /\ UNCHANGED <<pc, raw, df, report, large_trades, text, scorer, calls, fs, batch, scan, gui, main>>

InitBreak ==
    /\ pc = "generator"
    /\ \E ss \in SeqsUpTo(Stretch, MaxStretch) :
       \E profile \in {SessionProfile, PennyProfile, GetVolumeProfile(<<>>, DefaultBins)} :
       \E vwap \in {Ratio(10, 1), None} :
          report = BreakReport(ss, profile, vwap)
    /\ raw = [has_value |-> FALSE, rows |-> <<>>]
    /\ df = <<>>
    /\ result = NoResult
    /\ large_trades = <<>>
    /\ text = [case |-> "lower", words |-> <<>>]
    /\ scorer = NoScorer
    /\ calls = 0
    /\ fs = <<>>
    /\ batch = None
    /\ scan = None
    /\ gui = None
    /\ main = None

NextBreak == CallFindFakeBreak

SpecBreak == InitBreak /\ [][NextBreak]_vars

FakeBreakSought == result.op = "_find_fake_break"

\* the prices of the last 20 large trades of the report
PricesOfLastTwenty ==
    LET lt == report.large_trades
    IN  {lt[i].PRICE : i \in {j \in 1..Len(lt) : j > Len(lt) - 20}}

FinalLargePrice == report.large_trades[Len(report.large_trades)].PRICE

\* POC, VWAP or the large trades are missing, or the text of the POC does not
\* begin with a number
NothingToBreak ==
    \/ report.summary_stats.poc.k = "none"
    \/ report.summary_stats.final_vwap.k = "none"
    \/ report.large_trades = <<>>
    \/ PocLevel(report).k = "none"

FlaggedBreak(note) ==
    \E i \in 1..Len(result.value) :
        result.value[i].kind = "risk" /\ result.value[i].note = note

C24_WitnessOutOfReach ==
    /\ FakeBreakSought
    /\ ~NothingToBreak
    /\ Len(report.large_trades) = 21
    /\ report.large_trades[1].PRICE = 11
    /\ FinalLargePrice = 9
    /\ result.value = <<>>

C24_WitnessDown == FakeBreakSought /\ FlaggedBreak("fake_break_down")

\* a POC whose text begins with the minus sign is not parsed, and nothing is
\* flagged
C24_WitnessUnparsed ==
    /\ FakeBreakSought
    /\ report.summary_stats.poc.k = "some"
    /\ report.summary_stats.final_vwap.k = "some"
    /\ Len(report.large_trades) = 20
    /\ PocLevel(report).k = "none"
    /\ result.value = <<>>

----------------------------------------------------------------------------
(* The line on the closing price and the VWAP, through the pipeline        *)

\* the price of the last trade of the session, the closing price
ClosingPrice == Ratio(df[Len(df)].PRICE.v, 1)

PriceVsVwapOutcome(outcome) ==
    \E i \in 1..Len(result.value) :
        result.value[i] = [kind |-> "price_vs_vwap", outcome |-> outcome]

\* C25: the line on the price and the VWAP compares the price of the last
\* trade of the session with the final VWAP: "near" exactly when they differ
\* by less than 0.05% of the VWAP, otherwise "above" when the price is the
\* greater and "below" when it is the smaller, and one of these outcomes
\* stands in the narrative of every session that has trades.
C25_LastTradeAgainstVwap ==
    (pc = "reported" /\ df # <<>>) =>
        LET final_vwap == report.summary_stats.final_vwap
        IN  PriceVsVwapOutcome(IF Near(ClosingPrice, final_vwap) THEN "near"
                               ELSE IF Less(final_vwap, ClosingPrice) THEN "above"
                               ELSE "below")

\* a buy of 2 at 10 and then a sell of 1 at 11: the session closes at 11,
\* above its VWAP of 10.33, and the narrative has the closing price below it,
\* for only the buy is a large trade
C25_Witness ==
    /\ pc = "reported"
    /\ Len(df) = 2
    /\ ClosingPrice = Ratio(11, 1)
    /\ Less(report.summary_stats.final_vwap, ClosingPrice)
    /\ ~Near(ClosingPrice, report.summary_stats.final_vwap)
    /\ Len(report.large_trades) = 1
    /\ report.large_trades[1].PRICE = 10
    /\ PriceVsVwapOutcome("below")

----------------------------------------------------------------------------
(* The volumes of the summary and of the hours.  The raw rows are buys of  *)
(* 2 lots, sells of 1 lot and trades of 3 lots whose side is marked        *)
(* neither 'B' nor 'S', at 10:00 or 11:00.                                 *)

SideTimes == {36000, 39600}

SideRows ==
    {r \in RawRows({Num(t) : t \in SideTimes}, {Num(10)}, {Num(1), Num(2), Num(3)}, {Str},
                   {"B", "S", "X"}) :
        /\ (r.BUYSELL = "B") <=> (r.QUANTITY.v = 2)
        /\ (r.BUYSELL = "S") <=> (r.QUANTITY.v = 1)}

InitSides ==
    /\ pc = "new"
    /\ raw \in [has_value : {FALSE}, rows : SeqsUpTo(SideRows, MaxRaw)]
    /\ df = <<>>
    /\ IdleRest

NextSides == Construct \/ RunFullAnalysis

SpecSides == InitSides /\ [][NextSides]_vars

HourlyDeltas == [i \in 1..Len(report.hourly_stats) |-> report.hourly_stats[i].delta]

\* C26: in every report of run_full_analysis the delta of the summary is
\* buy_volume - sell_volume, buy_volume + sell_volume is total_volume, and the
\* deltas of the hours add up to the delta of the summary, whatever the side
\* markers of the trades.
C26_VolumesAddUp ==
    pc = "analysed" =>
        LET s == report.summary_stats
        IN  /\ s.delta = s.buy_volume - s.sell_volume
            /\ s.buy_volume + s.sell_volume = s.total_volume
            /\ SumSeq(HourlyDeltas) = s.delta

\* a buy of 2 lots and a trade of 3 lots marked 'X': the summary has buys 2,
\* sells 0, total 5 and delta -1, and the hours have delta 2
C26_Witness ==
    /\ pc = "analysed"
    /\ Len(df) = 2
    /\ \E i \in 1..2 : df[i].BUYSELL = "X"
    /\ report.summary_stats.buy_volume = 2
    /\ report.summary_stats.sell_volume = 0
    /\ report.summary_stats.total_volume = 5
    /\ report.summary_stats.delta = -1
    /\ SumSeq(HourlyDeltas) = 2

----------------------------------------------------------------------------
(* One scoring pass over texts made of the sentences the rules look for:   *)
(* any choice of the ten sentences, each on its own line, in any letter    *)
(* case, written once or twice over.                                       *)

\* a line on which rule n matches
SentenceOf(n) ==
    LET p == Rules[n].pattern
    IN  IF Len(p) = 1 THEN <<p[1], "NL">>
        ELSE IF Rules[n].blanks THEN <<p[1], "other", p[2], "NL">>
        ELSE <<p[1], p[2], "NL">>

RECURSIVE SentencesOf(_, _)
\* the sentences of the rules in the set which, up to rule n
SentencesOf(which, n) ==
    IF n = 0 THEN <<>>
    ELSE SentencesOf(which, n - 1) \o (IF n \in which THEN SentenceOf(n) ELSE <<>>)

InitScore ==
    /\ pc = "scorer"
    /\ \E which \in SUBSET (1..Len(Rules)) : \E twice \in BOOLEAN : \E case \in Cases :
          LET once == SentencesOf(which, Len(Rules))
          IN  text = [case |-> case, words |-> IF twice THEN once \o once ELSE once]
    /\ scorer = NoScorer
    /\ calls = 0
    /\ fs = <<>>
    /\ batch = None
    /\ scan = None
    /\ gui = None
    /\ main = None
    /\ raw = [has_value |-> FALSE, rows |-> <<>>]
    /\ df = <<>>
    /\ result = NoResult
    /\ report = None
    /\ large_trades = <<>>

NextScore == Analyze

SpecScore == InitScore /\ [][NextScore]_vars

\* the weight of the rule that puts the label
WeightOfLabel(label) == Rules[CHOOSE n \in 1..Len(Rules) : Rules[n].label = label].weight

\* C27: after one analyze() on a fresh ReportAnalyzer each rule has
\* contributed at most once whatever the number of its matches in the text,
\* both scores lie between 0 and 10, no reason list holds a label twice, and
\* each score is the sum of the weights of the labels in its reason list.
C27_ScoresWithinTenNoDuplicates ==
    calls = 1 =>
        /\ 0 <= scorer.long_score /\ scorer.long_score <= 10
        /\ 0 <= scorer.short_score /\ scorer.short_score <= 10
        /\ \A n \in 1..Len(Rules) :
              Count(scorer.long_reasons, Rules[n].label)
                 + Count(scorer.short_reasons, Rules[n].label) <= 1
        /\ scorer.long_score
              = SumSeq([i \in 1..Len(scorer.long_reasons) |-> WeightOfLabel(scorer.long_reasons[i])])
        /\ scorer.short_score
              = SumSeq([i \in 1..Len(scorer.short_reasons) |-> WeightOfLabel(scorer.short_reasons[i])])

\* every sentence stands twice in the text: both scores are 10, with five
\* reasons each
C27_Witness ==
    /\ calls = 1
    /\ Count(text.words, "bulls") = 2
    /\ Count(text.words, "buy_culm") = 2
    /\ scorer.long_score = 10
    /\ scorer.short_score = 10
    /\ Len(scorer.long_reasons) = 5
    /\ Len(scorer.short_reasons) = 5

----------------------------------------------------------------------------
(* The text of the narrative as the scorer reads it: of each sentence the  *)
(* phrases that the patterns of analyze() look for, "other" for the rest   *)
(* of it, and a line break after each line.                                *)

RECURSIVE FlattenFrom(_, _, _)
\* the sequences ss[lo..hi] joined
FlattenFrom(ss, lo, hi) ==
    IF lo > hi THEN <<>>
    ELSE IF lo = hi THEN ss[lo]
    ELSE LET mid == (lo + hi) \div 2
         IN  FlattenFrom(ss, lo, mid) \o FlattenFrom(ss, mid + 1, hi)

FlattenSeq(ss) == FlattenFrom(ss, 1, Len(ss))

\* the phrase on the closing price and the price in brackets after it

ClosingPriceStands == <<"close", "other">>

PhrasesOf(part) ==
    CASE part.kind = "sentiment" ->
            IF part.phrase \in {"bulls", "bears"} THEN <<part.phrase>> ELSE <<"other">>
      [] part.kind = "price_vs_vwap" ->
            IF part.outcome = "above" THEN ClosingPriceStands \o <<"above_vwap">>
            ELSE IF part.outcome = "below" THEN ClosingPriceStands \o <<"below_vwap">>
            ELSE IF part.outcome = "near" THEN ClosingPriceStands
            ELSE <<"other">>
      [] part.kind = "culmination" -> <<part.side>>
      [] part.kind = "trade_levels" ->
            <<"other">> \o
            FlattenSeq([i \in 1..Len(part.weakness) |->
                           <<"NL", IF part.weakness[i].label = "Slabost pokupateley"
                                   THEN "weakness" ELSE "other">>])
      [] part.kind = "risk" ->
            IF part.note \in {"unload", "buyback"} THEN <<part.note>>
            ELSE IF part.note = "close_below_vwap" THEN ClosingPriceStands \o <<"below_vwap">>
            ELSE IF part.note \in {"held_at_vwap", "close_below_poc", "held_at_poc"}
            THEN ClosingPriceStands
            ELSE IF part.note = "fake_break_up" THEN <<"poc_stab", "other", "weakness">>
            ELSE IF part.note = "fake_break_down" THEN <<"poc_stab", "other", "strength">>
            ELSE <<"other">>
      [] OTHER -> <<"other">>

\* "\n".join(report_parts)
ReportText(parts) ==
    [case  |-> "title",
     words |-> FlattenSeq([i \in 1..Len(parts) |-> PhrasesOf(parts[i]) \o <<"NL">>])]

\* rank_reports on the file that holds the narrative: ReportAnalyzer(text,
\* ticker).analyze()
ScoreReport ==
    /\ pc = "reported"
    /\ text' = ReportText(result.value)
    /\ scorer' = AnalyzeOf(NoScorer, ReportText(result.value))
    /\ calls' = 1
    /\ pc' = "scored"
    /\ UNCHANGED <<raw, df, result, report, large_trades, fs, batch, scan, gui, main>>

InitSentiment == InitDynamics

NextSentiment == GenerateFullReport \/ ScoreReport

SpecSentiment == InitSentiment /\ [][NextSentiment]_vars

\* C28: the narrative and the scorer agree on the sentiment: the text of
\* generate_full_report is scored "Bychiy sentiment", 2 on the long side,
\* exactly when the delta of the summary is above 0, "Medvezhiy sentiment", 2
\* on the short side, exactly when it is below 0, never both, and neither
\* when it is 0.
C28_SentimentScoredAsNarrated ==
    pc = "scored" =>
        LET delta == report.summary_stats.delta
            bull  == Count(scorer.long_reasons, "Bychiy sentiment")
            bear  == Count(scorer.short_reasons, "Medvezhiy sentiment")
        IN  /\ bull = (IF delta > 0 THEN 1 ELSE 0)
            /\ bear = (IF delta < 0 THEN 1 ELSE 0)
            /\ bull + bear <= 1
            /\ scorer.long_score
                  = SumSeq([i \in 1..Len(scorer.long_reasons) |->
                               WeightOfLabel(scorer.long_reasons[i])])
            /\ scorer.short_score
                  = SumSeq([i \in 1..Len(scorer.short_reasons) |->
                               WeightOfLabel(scorer.short_reasons[i])])
            /\ WeightOfLabel("Bychiy sentiment") = 2
            /\ WeightOfLabel("Medvezhiy sentiment") = 2

\* a session of delta 0 after a peak: neither sentiment is scored
C28_Witness ==
    /\ pc = "scored"
    /\ report.summary_stats.delta = 0
    /\ Count(scorer.long_reasons, "Bychiy sentiment") = 0
    /\ Count(scorer.short_reasons, "Medvezhiy sentiment") = 0
    /\ scorer.short_score > 0

C28_WitnessBears ==
    /\ pc = "scored"
    /\ report.summary_stats.delta < 0
    /\ Count(scorer.short_reasons, "Medvezhiy sentiment") = 1

C28_WitnessBulls ==
    /\ pc = "scored"
    /\ report.summary_stats.delta > 0
    /\ Count(scorer.long_reasons, "Bychiy sentiment") = 1

----------------------------------------------------------------------------
(* main_gui.py: the data-collection tab of MainWindow.  The handlers run   *)
(* in the GUI thread, one at a time; a worker runs in its own thread and   *)
(* its signals are queued to the GUI thread, which handles them in order.  *)
(* A worker is [kind, pc, left, emitted, handled]: left is the number of   *)
(* instruments an AllCollectWorker has still to fetch, emitted the         *)
(* terminal signals it has emitted, handled how many of them the GUI has   *)
(* handled.                                                                *)

IdleGui ==
    /\ pc = "gui"
    /\ raw = [has_value |-> FALSE, rows |-> <<>>]
    /\ df = <<>>
    /\ result = NoResult
    /\ report = None
    /\ large_trades = <<>>
    /\ text = [case |-> "lower", words |-> <<>>]
    /\ scorer = NoScorer
    /\ calls = 0
    /\ fs = <<>>
    /\ batch = None
    /\ scan = None

NotGui == <<pc, raw, df, result, report, large_trades, text, scorer, calls, fs, batch, scan, main>>

SetDataCollectionEnabledButOne(controls, enabled) ==
    [btn_get_instruments  |-> enabled,
     btn_collect_all      |-> controls.btn_collect_all,
     btn_collect_selected |-> enabled,
     ticker_input         |-> enabled]

\* lines 161-166
SetDataCollectionEnabled(controls, enabled) ==
    [btn_get_instruments  |-> enabled,
     btn_collect_all      |-> enabled,
     btn_collect_selected |-> enabled,
     ticker_input         |-> enabled]

\* MainWindow.__init__
InitGui ==
    /\ gui = [controls        |-> [btn_get_instruments |-> TRUE, btn_collect_all |-> TRUE,
                                   btn_collect_selected |-> TRUE, ticker_input |-> TRUE],
              has_ticker_map  |-> FALSE,
              collect_thread  |-> 0,
              workers         |-> <<>>,
              queue           |-> <<>>,
              dialog          |-> "none"]
    /\ main = None
    /\ IdleGui

\* what the ticker field holds when the button is clicked: nothing, a ticker
\* of the loaded list, or another text
TickerTexts == {"", "listed", "unlisted"}

NewWorker(kind, left) ==
    [kind |-> kind, pc |-> "running", left |-> left, emitted |-> <<>>, handled |-> 0]

\* QThread.start() on a new worker kept in self.collect_thread
StartWorker(g, kind, left) ==
    [g EXCEPT !.controls = SetDataCollectionEnabled(g.controls, FALSE),
              !.workers = Append(@, NewWorker(kind, left)),
              !.collect_thread = Len(g.workers) + 1]

\* lines 258-283
LoadInstruments ==
    /\ gui.controls.btn_get_instruments
    /\ gui' = [gui EXCEPT !.has_ticker_map = TRUE]
    /\ UNCHANGED NotGui

\* lines 285-296; the list of instruments the worker will get has 0..MaxBatch
\* entries
CollectAllData ==
    /\ gui.controls.btn_collect_all
    /\ Len(gui.workers) < MaxWorkers
    /\ \E total \in 0..MaxBatch : gui' = StartWorker(gui, "all", total)
    /\ UNCHANGED NotGui

\* lines 298-320
CollectSelectedData ==
    /\ gui.controls.btn_collect_selected
    /\ Len(gui.workers) < MaxWorkers
    /\ \E ticker_text \in TickerTexts :
          gui' = IF ticker_text = "" \/ ~gui.has_ticker_map \/ ticker_text = "unlisted"
                 THEN [gui EXCEPT !.dialog = "warning"]
                 ELSE StartWorker(gui, "single", 0)
    /\ UNCHANGED NotGui

\* signal.emit(...) in worker w, the last statement of its run()
Emit(g, w, signal) ==
    [g EXCEPT !.workers[w].emitted = Append(@, signal),
              !.workers[w].pc = "over",
              !.queue = Append(@, [worker |-> w, signal |-> signal])]

\* lines 34-45: data, no data, or an exception of the collector
SingleCollectWorkerRun ==
    /\ \E w \in 1..Len(gui.workers) :
          /\ gui.workers[w].kind = "single"
          /\ gui.workers[w].pc = "running"
          /\ \E outcome \in {"data", "no_data", "raise"} :
                gui' = Emit(gui, w, IF outcome = "data" THEN "finished" ELSE "error")
    /\ UNCHANGED NotGui

\* lines 53-78: one instrument fetched, the loop left, or an exception
AllCollectWorkerRun ==
    /\ \E w \in 1..Len(gui.workers) :
          /\ gui.workers[w].kind = "all"
          /\ gui.workers[w].pc = "running"
          /\ \/ gui' = Emit(gui, w, "error")
             \/ /\ gui.workers[w].left > 0
                /\ gui' = [gui EXCEPT !.workers[w].left = @ - 1]
             \/ /\ gui.workers[w].left = 0
                /\ gui' = Emit(gui, w, "finished")
    /\ UNCHANGED NotGui

\* the end of both slots: lines 394-396 and 402-404
Handled(g, box) ==
    [g EXCEPT !.controls = SetDataCollectionEnabled(g.controls, TRUE),
              !.collect_thread = 0,
              !.workers[g.queue[1].worker].handled = @ + 1,
              !.queue = Tail(@),
              !.dialog = box]

\* lines 388-396
OnCollectFinished ==
    /\ gui.queue # <<>>
    /\ gui.queue[1].signal = "finished"
    /\ gui' = Handled(gui, "information")
    /\ UNCHANGED NotGui

\* lines 398-404
OnCollectError ==
    /\ gui.queue # <<>>
    /\ gui.queue[1].signal = "error"
    /\ gui' = Handled(gui, "critical")
    /\ UNCHANGED NotGui

NextGui ==
    \/ LoadInstruments
    \/ CollectAllData
    \/ CollectSelectedData
    \/ SingleCollectWorkerRun
    \/ AllCollectWorkerRun
    \/ OnCollectFinished
    \/ OnCollectError

SpecGui == InitGui /\ [][NextGui]_vars

\* the workers whose terminal signal is not handled yet
Unhandled == {w \in 1..Len(gui.workers) : gui.workers[w].handled = 0}

\* C29: at most one data-collection worker runs at any time; from the start
\* of a worker until its terminal signal is handled the controls that start
\* a collection are disabled; a worker emits one terminal signal, finished or
\* error, when its run is over and none before; and once the signal is
\* handled the controls are enabled and collect_thread is cleared.
C29_OneCollectionAtATime ==
    /\ Cardinality({w \in 1..Len(gui.workers) : gui.workers[w].pc = "running"}) <= 1
    /\ Cardinality(Unhandled) <= 1
    /\ Unhandled # {} =>
          /\ \A c \in DOMAIN gui.controls : ~gui.controls[c]
          /\ gui.collect_thread \in Unhandled
    /\ Unhandled = {} =>
          /\ \A c \in DOMAIN gui.controls : gui.controls[c]
          /\ gui.collect_thread = 0
    /\ \A w \in 1..Len(gui.workers) :
          /\ gui.workers[w].pc = "running" => gui.workers[w].emitted = <<>>
          /\ gui.workers[w].pc = "over" =>
                /\ Len(gui.workers[w].emitted) = 1
                /\ gui.workers[w].emitted[1] \in {"finished", "error"}
          /\ gui.workers[w].handled <= Len(gui.workers[w].emitted)

\* a second worker runs after the error of the first was handled
C29_Witness ==
    /\ Len(gui.workers) = 2
    /\ gui.workers[1].emitted = <<"error">>
    /\ gui.workers[1].handled = 1
    /\ gui.workers[2].pc = "running"
    /\ gui.collect_thread = 2
    /\ ~gui.controls.btn_collect_all

\* a signal is emitted and waits to be handled: the controls stay disabled
C29_WitnessQueued ==
    /\ gui.queue # <<>>
    /\ gui.workers[gui.queue[1].worker].pc = "over"
    /\ ~gui.controls.btn_collect_selected

----------------------------------------------------------------------------
(* run_analysis.py: main.  What the stages meet is fixed beforehand:       *)
(* whether os.makedirs raises in create_folders or in the constructor of   *)
(* the collector, whether the collection raises inside its try, how many   *)
(* trade files and analysis files the folders hold, whether the ranking    *)
(* raises.  ran lists the stages that were entered and what they returned. *)

Outcomes == {"ok", "raise"}

Surroundings ==
    [folders : Outcomes, collector : Outcomes, collect : Outcomes,
     trade_files : 0..MaxBatch, analysis_files : 0..MaxBatch, ranking : Outcomes]

NotMain == <<pc, raw, df, result, report, large_trades, text, scorer, calls, fs, batch, scan, gui>>

InitMain ==
    /\ pc = "main"
    /\ \E env \in Surroundings :
          main = [pc |-> "start", env |-> env, ran |-> <<>>, log |-> <<>>]
    /\ gui = None
    /\ raw = [has_value |-> FALSE, rows |-> <<>>]
    /\ df = <<>>
    /\ result = NoResult
    /\ report = None
    /\ large_trades = <<>>
    /\ text = [case |-> "lower", words |-> <<>>]
    /\ scorer = NoScorer
    /\ calls = 0
    /\ fs = <<>>
    /\ batch = None
    /\ scan = None

\* a stage that returned: the next one is entered only after True
Returned(m, stage, value, next) ==
    [m EXCEPT !.ran = Append(@, [stage |-> stage, returned |-> value]),
              !.pc = IF value = "True" THEN next ELSE "final_log"]

\* an exception that no try of the stage catches leaves main
Escaped(m, stage) ==
    [m EXCEPT !.ran = Append(@, [stage |-> stage, returned |-> "raised"]),
              !.pc = "aborted"]

\* line 201
MainStart ==
    /\ main.pc = "start"
    /\ main' = [main EXCEPT !.log = Append(@, "start"), !.pc = "create_folders"]
    /\ UNCHANGED NotMain

\* lines 30-37 and 203
CreateFolders ==
    /\ main.pc = "create_folders"
    /\ main' = [main EXCEPT !.pc = IF main.env.folders = "raise" THEN "aborted"
                                  ELSE "step_1_collect_data"]
    /\ UNCHANGED NotMain

\* lines 39-87 and 205: the collector is made outside the try
MainCollectData ==
    /\ main.pc = "step_1_collect_data"
    /\ main' = IF main.env.collector = "raise" THEN Escaped(main, "collect")
               ELSE Returned(main, "collect",
                             IF main.env.collect = "ok" THEN "True" ELSE "False",
                             "step_2_run_analysis")
    /\ UNCHANGED NotMain

\* lines 89-134 and 206
MainRunAnalysis ==
    /\ main.pc = "step_2_run_analysis"
    /\ main' = Returned(main, "analyse",
                        IF main.env.trade_files > 0 THEN "True" ELSE "False",
                        "step_3_generate_reports")
    /\ UNCHANGED NotMain

\* lines 136-183 and 207
MainGenerateReports ==
    /\ main.pc = "step_3_generate_reports"
    /\ main' = Returned(main, "generate", 
                        IF main.env.analysis_files > 0 THEN "True" ELSE "False",
                        "step_4_rank_candidates")
    /\ UNCHANGED NotMain

\* lines 185-197 and 208
MainRankCandidates ==
    /\ main.pc = "step_4_rank_candidates"
    /\ main' = Returned(main, "rank",
                        IF main.env.ranking = "ok" THEN "True" ELSE "False",
                        "final_log")
    /\ UNCHANGED NotMain

\* line 210
MainFinalLog ==
    /\ main.pc = "final_log"
    /\ main' = [main EXCEPT !.log = Append(@, "completed"), !.pc = "returned"]
    /\ UNCHANGED NotMain

NextMain ==
    \/ MainStart
    \/ CreateFolders
    \/ MainCollectData
    \/ MainRunAnalysis
    \/ MainGenerateReports
    \/ MainRankCandidates
    \/ MainFinalLog

SpecMain == InitMain /\ [][NextMain]_vars

\* main is one thread that is not held up: its next statement is taken
SpecMainFair == SpecMain /\ WF_vars(NextMain)

StageOrder == <<"collect", "analyse", "generate", "rank">>

\* the stages entered are the first of the four, in their order, each once,
\* and every stage but the last entered has returned True
StagesInOrderGated ==
    /\ Len(main.ran) <= Len(StageOrder)
    /\ \A k \in 1..Len(main.ran) :
          /\ main.ran[k].stage = StageOrder[k]
          /\ k < Len(main.ran) => main.ran[k].returned = "True"

\* C30: main runs the stages in the order collect, analyse, generate
\* reports, rank, each at most once and only after every earlier stage
\* returned success, and main always reaches its final completion log.
C30_StagesGatedAndCompletionLogged ==
    /\ []StagesInOrderGated
    /\ <>(main.pc = "returned" /\ main.log = <<"start", "completed">>)

\* os.makedirs raises in create_folders: main is left before any stage and
\* without the completion log
C30_Witness ==
    /\ main.pc = "aborted"
    /\ main.env.folders = "raise"
    /\ main.ran = <<>>
    /\ main.log = <<"start">>

\* the constructor of the collector raises outside the try of stage 1
C30_WitnessCollector ==
    /\ main.pc = "aborted"
    /\ main.env.folders = "ok"
    /\ main.ran = <<[stage |-> "collect", returned |-> "raised"]>>
    /\ main.log = <<"start">>

\* the ranking is entered after three successes, and the log is written
C30_WitnessRanked ==
    /\ main.pc = "returned"
    /\ Len(main.ran) = 4
    /\ main.log = <<"start", "completed">>

\* when os.makedirs raises nowhere, main does reach its completion log,
\* whatever the stages return
CompletionLoggedWhenFoldersMade ==
    (main.env.folders = "ok" /\ main.env.collector = "ok")
        => <>(main.pc = "returned" /\ main.log = <<"start", "completed">>)

====
